---- MODULE Spec2Model ----
(***************************************************************************)
(* A model of gofetch's resilience layer: the per-endpoint circuit breaker *)
(* (infrastructure/circuit_breaker.go), the retry decision of the          *)
(* RetryManager and the composition protocol that runs one logical         *)
(* operation as a sequence of gated physical attempts.                     *)
(***************************************************************************)
EXTENDS Integers, FiniteSets, Sequences, TLC

\* ------------------------------------------------------------------ bounds
MaxTime == 2
MaxFailures == 2
MaxThreshold == 2
MaxTimeout == 1
MaxHalfOpen == 2
MaxRetriesBound == 2
MaxConcurrent == 1
DurationBits == 6
MantissaBits == 3
MaxAttemptIndex == 5
RngSteps == 4
MaxCallers == 2

Keys == {"/a", "/b"}

\* models.CircuitBreakerState
CircuitBreakerClosed == "closed"
CircuitBreakerOpen == "open"
CircuitBreakerHalfOpen == "half-open"

VARIABLES
    circuits,          \* cb.circuits: endpoint -> circuitState (a partial map)
    threshold,         \* cb.threshold
    timeout,           \* cb.timeout
    halfOpenRequests,  \* cb.halfOpenRequests
    now,               \* the wall clock read by time.Now / time.Since
    last,              \* the breaker call that has just returned (none after any other step)
    winPermits,        \* per key: gate permits in the current half-open window
    winSuccesses       \* per key: successes recorded in the current half-open window

VARIABLES
    retryOptions,      \* whether the client was given RetryOptions at all
    maxRetries,        \* RetryOptions.MaxRetries
    circuitBreaker,    \* RetryOptions.CircuitBreaker: circuit breaking enabled
    retryOnStatusCodes,\* RetryOptions.RetryOnStatusCodes
    pc,                \* per logical operation: its position in the attempt loop
    opKey,             \* per logical operation: its endpoint key
    attempt,           \* per logical operation: the attempt index, from 0
    physical,          \* per logical operation: physical requests issued so far
    permits,           \* per logical operation: gate checks that permitted so far
    outcome,           \* per logical operation: what its latest physical request reported
    result             \* per logical operation: what it returned to the caller

VARIABLES
    initialDelay,      \* RetryOptions.InitialDelay
    maxDelay,          \* RetryOptions.MaxDelay
    backoff,           \* RetryOptions.Backoff
    jitter,            \* RetryOptions.Jitter
    jitterFraction,    \* RetryOptions.JitterFraction, in tenths
    decision,          \* the ShouldRetry call that has just returned
    delayCall,         \* the CalculateDelay call that has just returned
    cancel             \* per logical operation: the caller's cancellation signal

VARIABLES
    streak,            \* per key: failures recorded since the key's last success or reset
    mu,                \* cb.mu: 0 when free, else the caller that holds it
    callers,           \* per concurrent caller: its call and its position in it
    serial,            \* the circuits obtained by running the finished calls one at a time
    heap,              \* the Config objects with the maps, options and arrays they point to
    manager,           \* the RetryManager built by NewRetryManager
    trial              \* per logical operation: its attempt under way was permitted in
                       \* the half-open window its key's circuit is in now

configVars == <<threshold, timeout, halfOpenRequests>>
callVars == <<circuits, last, winPermits, winSuccesses>>
retryVars == <<retryOptions, maxRetries, circuitBreaker, retryOnStatusCodes,
               initialDelay, maxDelay, backoff, jitter, jitterFraction>>
sideVars == <<streak, mu, callers, serial, heap, manager, trial>>
auxVars == <<decision, delayCall, cancel, sideVars>>
opVars == <<pc, opKey, attempt, physical, permits, outcome, result>>
vars == <<circuits, threshold, timeout, halfOpenRequests, now, last, winPermits,
          winSuccesses, retryOptions, maxRetries, circuitBreaker,
          retryOnStatusCodes, pc, opKey, attempt, physical, permits, outcome,
          result, initialDelay, maxDelay, backoff, jitter, jitterFraction,
          decision, delayCall, cancel, streak, mu, callers, serial, heap, manager,
          trial>>

\* ------------------------------------------------------- circuit_breaker.go
NewCircuitStateZeroValue ==
    [state |-> "", failureCount |-> 0, lastFailureTime |-> 0,
     openedAt |-> 0, halfOpenSuccessCount |-> 0, halfOpenAttempts |-> 0]

\* The zero value of a circuitState, as the composite literal
\* &circuitState{state: models.CircuitBreakerClosed} builds it. The zero
\* time.Time lies before every clock reading; the clock starts at 1.
NewCircuitState ==
    [state |-> CircuitBreakerClosed, failureCount |-> 0, lastFailureTime |-> 0,
     openedAt |-> 0, halfOpenSuccessCount |-> 0, halfOpenAttempts |-> 0]

TimeoutExpiredSinceStart(c) == now >= timeout

TimeoutExpiredStrict(c) == now - c.openedAt > timeout

\* time.Since(circuit.openedAt) >= cb.timeout
TimeoutExpired(c) == now - c.openedAt >= timeout

OpenToHalfOpenKeepsCounters(c) ==
    IF c.state = CircuitBreakerOpen /\ TimeoutExpired(c)
    THEN [c EXCEPT !.state = CircuitBreakerHalfOpen]
    ELSE c

\* CanAttempt, lines 78-87: an open circuit whose timeout expired turns half-open.
OpenToHalfOpen(c) ==
    IF c.state = CircuitBreakerOpen /\ TimeoutExpired(c)
    THEN [c EXCEPT !.state = CircuitBreakerHalfOpen,
                   !.halfOpenAttempts = 0,
                   !.halfOpenSuccessCount = 0]
    ELSE c

HalfOpenBudgetLeftInclusive(c) == c.halfOpenAttempts <= halfOpenRequests

\* CanAttempt, line 91, negated: the half-open trial budget is not used up.
HalfOpenBudgetLeft(c) == c.halfOpenAttempts < halfOpenRequests

GatePermitsOpenPasses(c) ==
    LET h == OpenToHalfOpen(c)
    IN  IF h.state = CircuitBreakerHalfOpen THEN HalfOpenBudgetLeft(h) ELSE TRUE

\* CanAttempt's return value for an existing record.
GatePermits(c) ==
    IF c.state = CircuitBreakerOpen /\ ~TimeoutExpired(c)
    THEN FALSE
    ELSE LET h == OpenToHalfOpen(c)
         IN  IF h.state = CircuitBreakerHalfOpen THEN HalfOpenBudgetLeft(h) ELSE TRUE

GateRecordCountsDenial(c) ==
    IF c.state = CircuitBreakerOpen /\ ~TimeoutExpired(c)
    THEN [c EXCEPT !.failureCount = @ + 1]
    ELSE LET h == OpenToHalfOpen(c)
         IN  IF h.state = CircuitBreakerHalfOpen /\ HalfOpenBudgetLeft(h)
             THEN [h EXCEPT !.halfOpenAttempts = @ + 1]
             ELSE h

\* CanAttempt's effect on an existing record.
GateRecord(c) ==
    IF c.state = CircuitBreakerOpen /\ ~TimeoutExpired(c)
    THEN c
    ELSE LET h == OpenToHalfOpen(c)
         IN  IF h.state = CircuitBreakerHalfOpen /\ HalfOpenBudgetLeft(h)
             THEN [h EXCEPT !.halfOpenAttempts = @ + 1]
             ELSE h

CanAttemptReturns(cs, k) ==
    IF k \notin DOMAIN cs THEN TRUE ELSE GatePermits(cs[k])

CanAttemptCircuits(cs, k) ==
    IF k \notin DOMAIN cs
    THEN [x \in DOMAIN cs \cup {k} |-> IF x = k THEN NewCircuitState ELSE cs[x]]
    ELSE [cs EXCEPT ![k] = GateRecord(cs[k])]

SuccessRecordFirstCloses(c) ==
    IF c.state = CircuitBreakerHalfOpen
    THEN [c EXCEPT !.halfOpenSuccessCount = @ + 1,
                   !.state = CircuitBreakerClosed,
                   !.failureCount = 0]
    ELSE IF c.state = CircuitBreakerClosed
         THEN [c EXCEPT !.failureCount = 0]
         ELSE c

SuccessRecordKeepsCount(c) ==
    IF c.state = CircuitBreakerHalfOpen
    THEN LET n == c.halfOpenSuccessCount + 1
         IN  IF n >= halfOpenRequests
             THEN [c EXCEPT !.halfOpenSuccessCount = n,
                            !.state = CircuitBreakerClosed,
                            !.failureCount = 0]
             ELSE [c EXCEPT !.halfOpenSuccessCount = n]
    ELSE c

SuccessRecordTrialsWhileOpen(c) ==
    IF c.state \in {CircuitBreakerHalfOpen, CircuitBreakerOpen}
    THEN LET n == c.halfOpenSuccessCount + 1
         IN  IF n >= halfOpenRequests
             THEN [c EXCEPT !.halfOpenSuccessCount = n,
                            !.state = CircuitBreakerClosed,
                            !.failureCount = 0]
             ELSE [c EXCEPT !.halfOpenSuccessCount = n]
    ELSE IF c.state = CircuitBreakerClosed
         THEN [c EXCEPT !.failureCount = 0]
         ELSE c

\* RecordSuccess on an existing record.
SuccessRecord(c) ==
    IF c.state = CircuitBreakerHalfOpen
    THEN LET n == c.halfOpenSuccessCount + 1
         IN  IF n >= halfOpenRequests
             THEN [c EXCEPT !.halfOpenSuccessCount = n,
                            !.state = CircuitBreakerClosed,
                            !.failureCount = 0]
             ELSE [c EXCEPT !.halfOpenSuccessCount = n]
    ELSE IF c.state = CircuitBreakerClosed
         THEN [c EXCEPT !.failureCount = 0]
         ELSE c

RecordSuccessCircuitsCreates(cs, k) ==
    IF k \notin DOMAIN cs
    THEN [x \in DOMAIN cs \cup {k} |-> IF x = k THEN NewCircuitState ELSE cs[x]]
    ELSE [cs EXCEPT ![k] = SuccessRecord(cs[k])]

\* RecordSuccess: nothing for a key without a record.
RecordSuccessCircuits(cs, k) ==
    IF k \notin DOMAIN cs THEN cs ELSE [cs EXCEPT ![k] = SuccessRecord(cs[k])]

CountFailureAboveThreshold(c) ==
    LET f == [c EXCEPT !.failureCount = @ + 1, !.lastFailureTime = now]
    IN  IF f.state = CircuitBreakerClosed /\ f.failureCount > threshold
        THEN [f EXCEPT !.state = CircuitBreakerOpen, !.openedAt = now]
        ELSE f

CountFailureRestartsTimeout(c) ==
    LET f == [c EXCEPT !.failureCount = @ + 1, !.lastFailureTime = now, !.openedAt = now]
    IN  IF f.state = CircuitBreakerClosed /\ f.failureCount >= threshold
        THEN [f EXCEPT !.state = CircuitBreakerOpen]
        ELSE f

\* RecordFailure, lines 136-143: count the failure, open a closed circuit at the threshold.
CountFailure(c) ==
    LET f == [c EXCEPT !.failureCount = @ + 1, !.lastFailureTime = now]
    IN  IF f.state = CircuitBreakerClosed /\ f.failureCount >= threshold
        THEN [f EXCEPT !.state = CircuitBreakerOpen, !.openedAt = now]
        ELSE f

ReopenKeepsOpenedAt(c) ==
    IF c.state = CircuitBreakerHalfOpen
    THEN [c EXCEPT !.state = CircuitBreakerOpen,
                   !.halfOpenAttempts = 0, !.halfOpenSuccessCount = 0]
    ELSE c

\* RecordFailure, lines 145-151: a failure in half-open reopens the circuit.
ReopenHalfOpen(c) ==
    IF c.state = CircuitBreakerHalfOpen
    THEN [c EXCEPT !.state = CircuitBreakerOpen, !.openedAt = now,
                   !.halfOpenAttempts = 0, !.halfOpenSuccessCount = 0]
    ELSE c

FailureRecord(c) == ReopenHalfOpen(CountFailure(c))

RecordFailureCircuitsShared(cs, k) ==
    [x \in DOMAIN cs \cup {k} |->
        FailureRecord(IF x \in DOMAIN cs THEN cs[x] ELSE NewCircuitState)]

RecordFailureCircuits(cs, k) ==
    LET c == IF k \in DOMAIN cs THEN cs[k] ELSE NewCircuitState
    IN  [x \in DOMAIN cs \cup {k} |-> IF x = k THEN FailureRecord(c) ELSE cs[x]]

ResetCircuitsClosesOnly(cs, k) ==
    IF k \in DOMAIN cs THEN [cs EXCEPT ![k].state = CircuitBreakerClosed] ELSE cs

\* Reset: delete(cb.circuits, endpoint)
ResetCircuits(cs, k) == [x \in DOMAIN cs \ {k} |-> cs[x]]

\* make(map[string]*circuitState)
EmptyCircuits == [x \in {} |-> NewCircuitState]

\* ResetAll: cb.circuits = make(map[string]*circuitState)
ResetAllCircuits(cs) == EmptyCircuits

\* GetState's return value
GetStateReturns(cs, k) ==
    IF k \notin DOMAIN cs THEN CircuitBreakerClosed ELSE cs[k].state

GetStateCircuitsRefreshes(cs, k) ==
    IF k \in DOMAIN cs THEN [cs EXCEPT ![k] = OpenToHalfOpen(cs[k])] ELSE cs

\* GetState holds the read lock and writes nothing.
GetStateCircuits(cs, k) == cs

IsOpenReturnsWhileOpen(cs, k) ==
    IF k \notin DOMAIN cs THEN FALSE ELSE cs[k].state = CircuitBreakerOpen

\* IsOpen's return value: true for an open circuit whose timeout has not expired.
IsOpenReturns(cs, k) ==
    IF k \notin DOMAIN cs
    THEN FALSE
    ELSE cs[k].state = CircuitBreakerOpen /\ ~TimeoutExpired(cs[k])

IsOpenCircuitsTransitions(cs, k) ==
    IF k \in DOMAIN cs THEN [cs EXCEPT ![k] = OpenToHalfOpen(cs[k])] ELSE cs

\* IsOpen holds the read lock and writes nothing.
IsOpenCircuits(cs, k) == cs

\* ------------------------------------------------- window bookkeeping (ghost)
StateOf(cs, k) == IF k \in DOMAIN cs THEN cs[k].state ELSE "unseen"

\* Counts of one half-open window of key k: a call made in half-open adds to
\* the window's count, a call that enters half-open starts a new window, and
\* the count of a window that has ended is kept until the key's next call.
WindowCount(w, k, pre, post, delta) ==
    [w EXCEPT ![k] =
        IF StateOf(pre, k) = CircuitBreakerHalfOpen THEN @ + delta
        ELSE IF StateOf(post, k) = CircuitBreakerHalfOpen THEN delta
        ELSE 0]

\* ------------------------------------------------------------ breaker calls
\* Each call runs under cb.mu, so it is one atomic step on the breaker's state.
\* last describes the call that has just returned: its name, its key, the
\* logical operation that made it (0: a direct caller), the key's record
\* before the call and the value returned.
Unseen == [state |-> "unseen"]
RecordOf(cs, k) == IF k \in DOMAIN cs THEN cs[k] ELSE Unseen
NoCall == [op |-> "none", key |-> "", by |-> 0, pre |-> Unseen, ret |-> TRUE]
Called(name, k, o, r) ==
    [op |-> name, key |-> k, by |-> o, pre |-> RecordOf(circuits, k), ret |-> r]

CanAttemptCall(k, o) ==
    /\ circuits' = CanAttemptCircuits(circuits, k)
    /\ last' = Called("CanAttempt", k, o, CanAttemptReturns(circuits, k))
    /\ winPermits' = WindowCount(winPermits, k, circuits, circuits',
                                 IF CanAttemptReturns(circuits, k) THEN 1 ELSE 0)
    /\ winSuccesses' = WindowCount(winSuccesses, k, circuits, circuits', 0)

RecordSuccessCall(k, o) ==
    /\ circuits' = RecordSuccessCircuits(circuits, k)
    /\ last' = Called("RecordSuccess", k, o, TRUE)
    /\ winPermits' = WindowCount(winPermits, k, circuits, circuits', 0)
    /\ winSuccesses' = WindowCount(winSuccesses, k, circuits, circuits', 1)

\* failureCount has no upper limit in the code; the model stops counting at MaxFailures.
RecordFailureCall(k, o) ==
    /\ k \in DOMAIN circuits => circuits[k].failureCount < MaxFailures
    /\ circuits' = RecordFailureCircuits(circuits, k)
    /\ last' = Called("RecordFailure", k, o, TRUE)
    /\ winPermits' = WindowCount(winPermits, k, circuits, circuits', 0)
    /\ winSuccesses' = WindowCount(winSuccesses, k, circuits, circuits', 0)

ResetCall(k) ==
    /\ circuits' = ResetCircuits(circuits, k)
    /\ last' = Called("Reset", k, 0, TRUE)
    /\ winPermits' = [winPermits EXCEPT ![k] = 0]
    /\ winSuccesses' = [winSuccesses EXCEPT ![k] = 0]

\* The breaker used directly, by any number of callers in any order.
CanAttempt(k) ==
    CanAttemptCall(k, 0) /\ UNCHANGED <<auxVars, configVars, now, retryVars, opVars>>

RecordSuccess(k) ==
    RecordSuccessCall(k, 0) /\ UNCHANGED <<auxVars, configVars, now, retryVars, opVars>>

RecordFailure(k) ==
    RecordFailureCall(k, 0) /\ UNCHANGED <<auxVars, configVars, now, retryVars, opVars>>

Reset(k) ==
    ResetCall(k) /\ UNCHANGED <<auxVars, configVars, now, retryVars, opVars>>

GetStateCall(k) ==
    /\ circuits' = GetStateCircuits(circuits, k)
    /\ last' = Called("GetState", k, 0, GetStateReturns(circuits, k))
    /\ UNCHANGED <<winPermits, winSuccesses>>

ResetAllCall ==
    /\ circuits' = ResetAllCircuits(circuits)
    /\ last' = Called("ResetAll", "", 0, TRUE)
    /\ winPermits' = [k \in Keys |-> 0]
    /\ winSuccesses' = [k \in Keys |-> 0]

GetState(k) ==
    GetStateCall(k) /\ UNCHANGED <<auxVars, configVars, now, retryVars, opVars>>

ResetAll ==
    ResetAllCall /\ UNCHANGED <<auxVars, configVars, now, retryVars, opVars>>

IsOpenCall(k) ==
    /\ circuits' = IsOpenCircuits(circuits, k)
    /\ last' = Called("IsOpen", k, 0, IsOpenReturns(circuits, k))
    /\ UNCHANGED <<winPermits, winSuccesses>>

IsOpen(k) ==
    IsOpenCall(k) /\ UNCHANGED <<auxVars, configVars, now, retryVars, opVars>>

\* The clock advances between calls.
Tick ==
    /\ now < MaxTime
    /\ now' = now + 1
    /\ last' = NoCall
    /\ UNCHANGED <<auxVars, configVars, circuits, winPermits, winSuccesses, retryVars, opVars>>

\* ------------------------------------------------------- callers under cb.mu
\* CanAttempt, RecordSuccess and RecordFailure each take cb.mu, read the key's
\* record, write it back changed, and release cb.mu on return. Here a call is
\* these four steps, so that calls of several goroutines overlap in every way
\* the mutex allows.
Callers == 1..MaxCallers
ConcKeys == {"/a"}
CallNames == {"CanAttempt", "RecordSuccess", "RecordFailure"}
Idle == [pc |-> "idle", op |-> "none", key |-> "", reg |-> Unseen]

\* The circuits as seen through the record r a caller read for key k.
WithRecord(cs, k, r) ==
    IF r = Unseen
    THEN ResetCircuits(cs, k)
    ELSE [x \in DOMAIN cs \cup {k} |-> IF x = k THEN r ELSE cs[x]]

\* The body of the named method, on the circuits cs.
Applied(name, cs, k) ==
    CASE name = "CanAttempt" -> CanAttemptCircuits(cs, k)
      [] name = "RecordSuccess" -> RecordSuccessCircuits(cs, k)
      [] name = "RecordFailure" -> RecordFailureCircuits(cs, k)

\* The value the named method returns.
AppliedReturns(name, cs, k) ==
    IF name = "CanAttempt" THEN CanAttemptReturns(cs, k) ELSE TRUE

\* Failures recorded since the key's last recorded success.
Streak(name, k) ==
    CASE name = "RecordFailure" -> [streak EXCEPT ![k] = @ + 1]
      [] name = "RecordSuccess" -> [streak EXCEPT ![k] = 0]
      [] OTHER -> streak

MutexFreeAlways == TRUE

\* cb.mu.Lock() returns only while no other caller holds cb.mu.
MutexFree == mu = 0

\* Failures counted for key k, with those of calls under way.
PendingFailures(k) ==
    (IF k \in DOMAIN circuits THEN circuits[k].failureCount ELSE 0)
    + Cardinality({u \in Callers : callers[u].op = "RecordFailure" /\ callers[u].key = k})

\* A goroutine calls the named method for key k and reaches cb.mu.Lock().
Enter(t, name, k) ==
    /\ callers[t].pc = "idle"
    /\ name = "RecordFailure" => PendingFailures(k) < MaxFailures
    /\ callers' = [callers EXCEPT ![t] = [pc |-> "lock", op |-> name, key |-> k, reg |-> Unseen]]
    /\ last' = NoCall
    /\ UNCHANGED <<decision, delayCall, cancel, trial, streak, mu, serial, heap, manager,
                   configVars, circuits, winPermits, winSuccesses, now, retryVars, opVars>>

\* cb.mu.Lock() returns.
Lock(t) ==
    /\ callers[t].pc = "lock"
    /\ MutexFree
    /\ mu' = t
    /\ callers' = [callers EXCEPT ![t].pc = "load"]
    /\ last' = NoCall
    /\ UNCHANGED <<decision, delayCall, cancel, trial, streak, serial, heap, manager,
                   configVars, circuits, winPermits, winSuccesses, now, retryVars, opVars>>

\* circuit, exists := cb.circuits[endpoint]
Load(t) ==
    /\ callers[t].pc = "load"
    /\ callers' = [callers EXCEPT ![t].pc = "store",
                                  ![t].reg = RecordOf(circuits, callers[t].key)]
    /\ last' = NoCall
    /\ UNCHANGED <<decision, delayCall, cancel, trial, streak, mu, serial, heap, manager,
                   configVars, circuits, winPermits, winSuccesses, now, retryVars, opVars>>

\* The method's writes, computed from the record read. serial takes the same
\* call as one step on the circuits of the calls finished before it.
Store(t) ==
    LET c == callers[t]
        seen == WithRecord(circuits, c.key, c.reg)
    IN  /\ c.pc = "store"
        /\ circuits' = Applied(c.op, seen, c.key)
        /\ serial' = Applied(c.op, serial, c.key)
        /\ streak' = Streak(c.op, c.key)
        /\ last' = [op |-> c.op, key |-> c.key, by |-> 0, pre |-> c.reg,
                    ret |-> AppliedReturns(c.op, seen, c.key)]
        /\ callers' = [callers EXCEPT ![t].pc = "unlock"]
        /\ UNCHANGED <<decision, delayCall, cancel, trial, mu, heap, manager,
                       configVars, winPermits, winSuccesses, now, retryVars, opVars>>

\* defer cb.mu.Unlock(): the call returns.
Unlock(t) ==
    /\ callers[t].pc = "unlock"
    /\ mu' = 0
    /\ callers' = [callers EXCEPT ![t] = Idle]
    /\ last' = NoCall
    /\ UNCHANGED <<decision, delayCall, cancel, trial, streak, serial, heap, manager,
                   configVars, circuits, winPermits, winSuccesses, now, retryVars, opVars>>

\* -------------------------------------- calls one at a time, failures counted
CanAttemptCounted(k) ==
    /\ CanAttemptCall(k, 0)
    /\ streak' = Streak("CanAttempt", k)
    /\ UNCHANGED <<decision, delayCall, cancel, trial, mu, callers, serial, heap, manager,
                   configVars, now, retryVars, opVars>>

RecordSuccessCounted(k) ==
    /\ RecordSuccessCall(k, 0)
    /\ streak' = Streak("RecordSuccess", k)
    /\ UNCHANGED <<decision, delayCall, cancel, trial, mu, callers, serial, heap, manager,
                   configVars, now, retryVars, opVars>>

RecordFailureCounted(k) ==
    /\ RecordFailureCall(k, 0)
    /\ streak' = Streak("RecordFailure", k)
    /\ UNCHANGED <<decision, delayCall, cancel, trial, mu, callers, serial, heap, manager,
                   configVars, now, retryVars, opVars>>

ResetCounted(k) ==
    /\ ResetCall(k)
    /\ streak' = [streak EXCEPT ![k] = 0]
    /\ UNCHANGED <<decision, delayCall, cancel, trial, mu, callers, serial, heap, manager,
                   configVars, now, retryVars, opVars>>

\* ------------------------------------------------------------ retry decision
\* What one physical attempt reports: a transport error, or a status code.
TransportError == [err |-> TRUE, status |-> 0]
Response(code) == [err |-> FALSE, status |-> code]
Outcomes == {TransportError, Response(200), Response(429), Response(500)}
NoOutcome == [err |-> FALSE, status |-> 0]

ShouldRetryStatusInclusive(statusCode) ==
    \/ statusCode >= 500 /\ statusCode <= 600
    \/ statusCode \in retryOnStatusCodes

ShouldRetryStatusClientErrors(statusCode) ==
    \/ statusCode >= 400 /\ statusCode < 600
    \/ statusCode \in retryOnStatusCodes

\* RetryOptions.ShouldRetryStatus
ShouldRetryStatus(statusCode) ==
    \/ statusCode >= 500 /\ statusCode < 600
    \/ statusCode \in retryOnStatusCodes

ShouldRetryOffByOne(a, statusCode, err) ==
    IF a > maxRetries THEN FALSE
    ELSE IF err THEN TRUE
    ELSE ShouldRetryStatus(statusCode)

ShouldRetryErrFirst(a, statusCode, err) ==
    IF err THEN TRUE
    ELSE IF a >= maxRetries THEN FALSE
    ELSE ShouldRetryStatus(statusCode)

ShouldRetryAnyStatus(a, statusCode, err) == a < maxRetries

\* RetryManager.ShouldRetry
ShouldRetry(a, statusCode, err) ==
    IF a >= maxRetries THEN FALSE
    ELSE IF err THEN TRUE
    ELSE ShouldRetryStatus(statusCode)


\* A direct call of ShouldRetry; decision describes the call that has just returned.
NoDecision == [op |-> "none", attempt |-> 0, status |-> 0, err |-> FALSE, ret |-> FALSE]

ShouldRetryCall(a, statusCode, err) ==
    /\ decision' = [op |-> "ShouldRetry", attempt |-> a, status |-> statusCode,
                    err |-> err, ret |-> ShouldRetry(a, statusCode, err)]
    /\ UNCHANGED <<configVars, callVars, now, retryVars, opVars, delayCall, cancel, sideVars>>

\* ------------------------------------------------------------------ backoff
\* time.Duration is an int64 and float64 carries 53 significant bits. The
\* model keeps both widths, scaled down: durations are DurationBits-bit two's
\* complement integers and a float64 carries MantissaBits significant bits
\* (fewer than a duration has, as 53 < 63).
MaxDuration == 2^(DurationBits - 1) - 1
MinDuration == -(2^(DurationBits - 1))
Durations == MinDuration..MaxDuration

\* Integer arithmetic on time.Duration wraps around.
Wrap(x) == ((x - MinDuration) % (2^DurationBits)) + MinDuration

\* The distance between neighbouring float64 values at the non-negative integer x.
RECURSIVE Spacing(_)
Spacing(x) == IF x < 2^MantissaBits THEN 1 ELSE 2 * Spacing(x \div 2)

\* Rounding of x >= 0 to a multiple of u, ties to the even multiple.
RoundHalfEven(x, u) ==
    LET q == x \div u
        r == x % u
    IN  IF 2 * r < u \/ (2 * r = u /\ q % 2 = 0) THEN q * u ELSE (q + 1) * u

\* float64(d) for a duration d: the nearest value with MantissaBits significant bits.
Float64Of(d) ==
    IF d < 0 THEN -RoundHalfEven(-d, Spacing(-d)) ELSE RoundHalfEven(d, Spacing(d))

\* The quotient num / den (den > 0) truncated toward zero.
Truncate(num, den) ==
    IF num >= 0 THEN num \div den ELSE -((-num) \div den)

\* time.Duration(f) for the float64 f = num / den: the value truncated toward
\* zero when it fits an int64; otherwise the result is implementation-dependent
\* (amd64 builds give the minimum int64, arm64 builds the nearest int64).
DurationOfFloat(num, den) ==
    LET t == Truncate(num, den)
    IN  IF t \in Durations THEN {t}
        ELSE {MinDuration, IF t > 0 THEN MaxDuration ELSE MinDuration}

\* models.BackoffStrategy
BackoffExponential == "exponential"
BackoffLinear == "linear"
BackoffFixed == "fixed"

\* calculateExponentialBackoff: time.Duration(float64(InitialDelay) * math.Pow(2, attempt)).
\* For the attempt indices of the model math.Pow(2, n) is the exact power of two
\* and the product with it is exact.
ExponentialBackoff(n) == DurationOfFloat(Float64Of(initialDelay) * 2^n, 1)

LinearBackoffFromZero(n) == Wrap(initialDelay * Wrap(n))

\* calculateLinearBackoff: InitialDelay * time.Duration(attempt + 1)
LinearBackoff(n) == Wrap(initialDelay * Wrap(n + 1))

StrategyDelaysDefaultFixed(n) ==
    CASE backoff = BackoffExponential -> ExponentialBackoff(n)
      [] backoff = BackoffLinear -> {LinearBackoff(n)}
      [] OTHER -> {initialDelay}

\* CalculateDelay, lines 49-58: the values the strategy computation can give.
StrategyDelays(n) ==
    CASE backoff = BackoffExponential -> ExponentialBackoff(n)
      [] backoff = BackoffLinear -> {LinearBackoff(n)}
      [] backoff = BackoffFixed -> {initialDelay}
      [] OTHER -> ExponentialBackoff(n)

\* CalculateDelay, lines 60-63
CapDelay(d) == IF d > maxDelay THEN maxDelay ELSE d

\* jitterFraction and the generator's values are fractions: jitterFraction is
\* kept in tenths, and rng.Float64() is r / RngSteps for r in 0..RngSteps-1.
FractionUnit == 10

\* applyJitter, lines 87-93: the fraction in use, in tenths
EffectiveFraction ==
    IF jitterFraction <= 0 THEN 3
    ELSE IF jitterFraction > FractionUnit THEN FractionUnit
    ELSE jitterFraction

\* applyJitter, lines 96-104, for the generator value r / RngSteps:
\*   newDelay = float64(delay) + (r/RngSteps * 2 * jitterRange - jitterRange),
\* clamped at zero and converted back. The products are taken exactly.
ApplyJitter(delay, r) ==
    LET num == Float64Of(delay) * (FractionUnit * RngSteps + EffectiveFraction * (2 * r - RngSteps))
        den == FractionUnit * RngSteps
    IN  IF num < 0 THEN {0} ELSE DurationOfFloat(num, den)

\* CalculateDelay, lines 60-70: the delays returned when the strategy
\* computation gives a value of the set S.
DelaysFrom(S) ==
    UNION {IF jitter
           THEN UNION {ApplyJitter(CapDelay(s), r) : r \in 0..(RngSteps - 1)}
           ELSE {CapDelay(s)} : s \in S}

\* A call of CalculateDelay(n); delayCall describes the call that has just
\* returned: the strategy's value, the capped value, the generator's value and
\* the delay returned.
NoDelayCall ==
    [op |-> "none", attempt |-> 0, strategy |-> 0, capped |-> 0, rnd |-> 0, ret |-> 0]

CalculateDelay(n) ==
    /\ \E s \in StrategyDelays(n) :
           \E r \in (IF jitter THEN 0..(RngSteps - 1) ELSE {0}) :
               \E d \in (IF jitter THEN ApplyJitter(CapDelay(s), r) ELSE {CapDelay(s)}) :
                   delayCall' = [op |-> "CalculateDelay", attempt |-> n, strategy |-> s,
                                 capped |-> CapDelay(s), rnd |-> r, ret |-> d]
    /\ UNCHANGED <<configVars, callVars, now, retryVars, opVars, decision, cancel, sideVars>>

\* The caller's cancellation signal of an operation: not fired.
NoCancel == [fired |-> FALSE, at |-> 0]

\* ------------------------------------------------- the composition protocol
Ops == 1..(MaxThreshold + 1)

NoResult == [kind |-> "none", err |-> FALSE, status |-> 0]
CircuitOpenError == [kind |-> "circuit-open", err |-> TRUE, status |-> 0]
Returned(out) == [kind |-> "outcome", err |-> out.err, status |-> out.status]

\* Circuit breaking is in force only for a client that was given RetryOptions.
Breaking == retryOptions /\ circuitBreaker

\* Step 3: a transport error or a retryable status is a circuit failure.
CircuitFailure(out) == out.err \/ ShouldRetryStatus(out.status)

\* Step 4: the retry decision for the attempt that just ended.
Retrying(o, out) == retryOptions /\ ShouldRetry(attempt[o], out.status, out.err)

\* A caller issues logical operation o for endpoint k.
Start(o, k) ==
    /\ pc[o] = "idle"
    /\ pc' = [pc EXCEPT ![o] = "gate"]
    /\ opKey' = [opKey EXCEPT ![o] = k]
    /\ last' = NoCall
    /\ UNCHANGED <<auxVars, configVars, circuits, winPermits, winSuccesses, now, retryVars,
                   attempt, physical, permits, outcome, result>>

\* Step 1: the gate check of this attempt; a denial ends the operation.
GateCheck(o) ==
    /\ pc[o] = "gate"
    /\ IF Breaking
       THEN /\ CanAttemptCall(opKey[o], o)
            /\ IF CanAttemptReturns(circuits, opKey[o])
               THEN /\ pc' = [pc EXCEPT ![o] = "attempt"]
                    /\ permits' = [permits EXCEPT ![o] = @ + 1]
                    /\ UNCHANGED result
               ELSE /\ pc' = [pc EXCEPT ![o] = "done"]
                    /\ result' = [result EXCEPT ![o] = CircuitOpenError]
                    /\ UNCHANGED permits
       ELSE /\ pc' = [pc EXCEPT ![o] = "attempt"]
            /\ last' = NoCall
            /\ UNCHANGED <<circuits, winPermits, winSuccesses, permits, result>>
    /\ UNCHANGED <<configVars, now, retryVars, opKey, attempt, physical, outcome>>

Gate(o) == GateCheck(o) /\ UNCHANGED auxVars

\* Steps 2 to 4 and 6: the physical request ends with outcome out, the outcome
\* is recorded with the breaker, and the operation either schedules a retry or
\* returns the outcome.
AttemptOutcome(o, out) ==
    /\ pc[o] = "attempt"
    /\ physical' = [physical EXCEPT ![o] = @ + 1]
    /\ outcome' = [outcome EXCEPT ![o] = out]
    /\ IF Breaking
       THEN IF CircuitFailure(out)
            THEN RecordFailureCall(opKey[o], o)
            ELSE RecordSuccessCall(opKey[o], o)
       ELSE /\ last' = NoCall
            /\ UNCHANGED <<circuits, winPermits, winSuccesses>>
    /\ IF Retrying(o, out)
       THEN /\ pc' = [pc EXCEPT ![o] = "wait"]
            /\ UNCHANGED result
       ELSE /\ pc' = [pc EXCEPT ![o] = "done"]
            /\ result' = [result EXCEPT ![o] = Returned(out)]
    /\ UNCHANGED <<configVars, now, retryVars, opKey, attempt, permits>>

Attempt(o, out) == AttemptOutcome(o, out) /\ UNCHANGED auxVars

\* Step 5: the backoff delay is over; the next attempt starts at its gate check.
Wait(o) ==
    /\ pc[o] = "wait"
    /\ attempt' = [attempt EXCEPT ![o] = @ + 1]
    /\ pc' = [pc EXCEPT ![o] = "gate"]
    /\ last' = NoCall
    /\ UNCHANGED <<auxVars, configVars, circuits, winPermits, winSuccesses, now, retryVars,
                   opKey, physical, permits, outcome, result>>

\* The caller has taken the result; the caller's next request reuses the slot.
Return(o) ==
    /\ pc[o] = "done"
    /\ pc' = [pc EXCEPT ![o] = "idle"]
    /\ opKey' = [opKey EXCEPT ![o] = "/a"]
    /\ attempt' = [attempt EXCEPT ![o] = 0]
    /\ physical' = [physical EXCEPT ![o] = 0]
    /\ permits' = [permits EXCEPT ![o] = 0]
    /\ outcome' = [outcome EXCEPT ![o] = NoOutcome]
    /\ result' = [result EXCEPT ![o] = NoResult]
    /\ last' = NoCall
    /\ UNCHANGED <<auxVars, configVars, circuits, winPermits, winSuccesses, now, retryVars>>

\* The caller's context is cancelled, or its deadline passes, while operation
\* o sleeps in RetryManager.Wait. Wait takes no context: nothing but the signal
\* itself changes.
CancelledError == [kind |-> "cancelled", err |-> TRUE, status |-> 0]

Cancel(o) ==
    /\ pc[o] = "wait"
    /\ ~cancel[o].fired
    /\ cancel' = [cancel EXCEPT ![o] = [fired |-> TRUE, at |-> now]]
    /\ UNCHANGED <<configVars, callVars, now, retryVars, opVars, decision, delayCall, sideVars>>

\* time.Sleep(delay) in RetryManager.Wait returns, however long the delay was.
\* An operation whose signal has fired then ends with the cancellation error
\* before its next attempt; any other goes on to the next gate check.
WaitReturns(o) ==
    IF cancel[o].fired
    THEN /\ pc[o] = "wait"
         /\ pc' = [pc EXCEPT ![o] = "done"]
         /\ result' = [result EXCEPT ![o] = CancelledError]
         /\ last' = NoCall
         /\ UNCHANGED <<auxVars, configVars, circuits, winPermits, winSuccesses, now,
                        retryVars, opKey, attempt, physical, permits, outcome>>
    ELSE Wait(o)

\* ------------------------------------------------------------ configuration
\* models.Config values live on the heap: a Config points to its Headers map
\* and to its RetryOptions (0: nil), and a RetryOptions holds the slice
\* RetryOnStatusCodes, a window of len elements on a backing array (0: none).
\* heap.configs names the Config objects; heap.maps, heap.opts and heap.arrays
\* are the objects allocated so far, referred to by their index.
NoHeap == [configs |-> <<>>, maps |-> <<>>, opts |-> <<>>, arrays |-> <<>>,
           origin |-> <<>>, made |-> <<>>]

NilOptions == [nil |-> TRUE]

\* The elements a slice shows.
Codes(h, sl) == IF sl.arr = 0 THEN <<>> ELSE SubSeq(h.arrays[sl.arr], 1, sl.len)

\* What a reader of Config c sees: its fields, with the contents of the map
\* and of the options it points to.
View(h, c) ==
    LET cfg == h.configs[c]
    IN  [BaseURL |-> cfg.BaseURL,
         Timeout |-> cfg.Timeout,
         Headers |-> h.maps[cfg.Headers],
         StatusValidator |-> cfg.StatusValidator,
         RetryOptions |->
             IF cfg.RetryOptions = 0 THEN NilOptions
             ELSE [nil |-> FALSE,
                   MaxRetries |-> h.opts[cfg.RetryOptions].MaxRetries,
                   RetryOnStatusCodes |->
                       Codes(h, h.opts[cfg.RetryOptions].RetryOnStatusCodes)]]

\* The heap with Config name set to cfg.
WithConfig(h, name, cfg) ==
    [h EXCEPT !.configs = [x \in DOMAIN h.configs \cup {name} |->
                              IF x = name THEN cfg ELSE h.configs[x]]]

\* Clone, lines 138-146: nil stays nil; otherwise the struct is copied, and
\* its status codes are copied to a new array only when there are any.
CloneOptions(h, ref) ==
    IF ref = 0 THEN [heap |-> h, ref |-> 0]
    ELSE LET o == h.opts[ref]
             sl == o.RetryOnStatusCodes
             copied == sl.len > 0
             h1 == IF copied
                   THEN [h EXCEPT !.arrays = Append(@, Codes(h, sl))]
                   ELSE h
             o1 == IF copied
                   THEN [o EXCEPT !.RetryOnStatusCodes =
                                      [arr |-> Len(h1.arrays), len |-> sl.len]]
                   ELSE o
             h2 == [h1 EXCEPT !.opts = Append(@, o1)]
         IN  [heap |-> h2, ref |-> Len(h2.opts)]

\* Config.Clone: a new Config with a new Headers map of the same entries, the
\* scalar fields and the cloned options.
Clone(h, src, dst) ==
    LET cfg == h.configs[src]
        h1 == [h EXCEPT !.maps = Append(@, h.maps[cfg.Headers])]
        co == CloneOptions(h1, cfg.RetryOptions)
    IN  WithConfig(co.heap, dst,
                   [BaseURL |-> cfg.BaseURL,
                    Timeout |-> cfg.Timeout,
                    Headers |-> Len(h1.maps),
                    StatusValidator |-> cfg.StatusValidator,
                    RetryOptions |-> co.ref])

\* Merge, lines 169-171: other's headers are written into merged's map.
MergeHeaders(mine, theirs) ==
    [k \in DOMAIN mine \cup DOMAIN theirs |->
        IF k \in DOMAIN theirs THEN theirs[k] ELSE mine[k]]

\* Config.Merge: the receiver's clone, with each field that other sets
\* assigned from other. RetryOptions is a pointer and is assigned as one.
Merge(h, recv, other, dst) ==
    LET h1 == Clone(h, recv, dst)
        m == h1.configs[dst]
        o == h1.configs[other]
        h2 == [h1 EXCEPT !.maps[m.Headers] = MergeHeaders(@, h1.maps[o.Headers])]
    IN  WithConfig(h2, dst,
                   [BaseURL |-> IF o.BaseURL # "" THEN o.BaseURL ELSE m.BaseURL,
                    Timeout |-> IF o.Timeout # 0 THEN o.Timeout ELSE m.Timeout,
                    Headers |-> m.Headers,
                    StatusValidator |-> IF o.StatusValidator # "nil"
                                        THEN o.StatusValidator ELSE m.StatusValidator,
                    RetryOptions |-> IF o.RetryOptions # 0
                                     THEN o.RetryOptions ELSE m.RetryOptions])

\* The configurations a caller derives, and the changes it then makes to them.
Derived == {"merged", "clone"}
HeaderKeys == {"Authorization", "X-Custom"}
MaxCodes == 2

\* merged := config1.Merge(config2)
MergeCall ==
    /\ "merged" \notin DOMAIN heap.configs
    /\ LET h == Merge(heap, "config1", "config2", "merged")
       IN  heap' = [h EXCEPT !.made = [x \in DOMAIN heap.made \cup {"merged"} |->
                                          IF x = "merged" THEN View(h, "merged")
                                          ELSE heap.made[x]]]
    /\ UNCHANGED <<decision, delayCall, cancel, trial, streak, mu, callers, serial, manager,
                   configVars, callVars, now, retryVars, opVars>>

\* clone := config1.Clone()
CloneCall ==
    /\ "clone" \notin DOMAIN heap.configs
    /\ LET h == Clone(heap, "config1", "clone")
       IN  heap' = [h EXCEPT !.made = [x \in DOMAIN heap.made \cup {"clone"} |->
                                          IF x = "clone" THEN View(h, "clone")
                                          ELSE heap.made[x]]]
    /\ UNCHANGED <<decision, delayCall, cancel, trial, streak, mu, callers, serial, manager,
                   configVars, callVars, now, retryVars, opVars>>

\* c.Headers[k] = v
SetHeader(c, k, v) ==
    /\ c \in DOMAIN heap.configs
    /\ LET ref == heap.configs[c].Headers
       IN  heap' = [heap EXCEPT !.maps[ref] =
                        [x \in DOMAIN @ \cup {k} |-> IF x = k THEN v ELSE @[x]]]
    /\ UNCHANGED <<decision, delayCall, cancel, trial, streak, mu, callers, serial, manager,
                   configVars, callVars, now, retryVars, opVars>>

\* c.RetryOptions.RetryOnStatusCodes[i] = v
SetRetryCode(c, i, v) ==
    /\ c \in DOMAIN heap.configs
    /\ heap.configs[c].RetryOptions # 0
    /\ LET sl == heap.opts[heap.configs[c].RetryOptions].RetryOnStatusCodes
       IN  /\ i \in 1..sl.len
           /\ heap' = [heap EXCEPT !.arrays[sl.arr][i] = v]
    /\ UNCHANGED <<decision, delayCall, cancel, trial, streak, mu, callers, serial, manager,
                   configVars, callVars, now, retryVars, opVars>>

\* c.RetryOptions.RetryOnStatusCodes = append(c.RetryOptions.RetryOnStatusCodes, v):
\* in place while the backing array has room, else on a new array.
AppendRetryCode(c, v) ==
    /\ c \in DOMAIN heap.configs
    /\ heap.configs[c].RetryOptions # 0
    /\ LET ref == heap.configs[c].RetryOptions
           sl == heap.opts[ref].RetryOnStatusCodes
           room == sl.arr # 0 /\ sl.len < Len(heap.arrays[sl.arr])
       IN  /\ sl.len < MaxCodes
           /\ heap' =
                IF room
                THEN [heap EXCEPT !.arrays[sl.arr][sl.len + 1] = v,
                                  !.opts[ref].RetryOnStatusCodes.len = sl.len + 1]
                ELSE [heap EXCEPT !.arrays = Append(@, Append(Codes(heap, sl), v)),
                                  !.opts[ref].RetryOnStatusCodes =
                                      [arr |-> Len(heap.arrays) + 1, len |-> sl.len + 1]]
    /\ UNCHANGED <<decision, delayCall, cancel, trial, streak, mu, callers, serial, manager,
                   configVars, callVars, now, retryVars, opVars>>
\* time.Millisecond and time.Second, with the millisecond as the unit.
Millisecond == 1
Second == 1000 * Millisecond

NewRetryOptionsFiveRetries ==
    [MaxRetries |-> 5,
     InitialDelay |-> 100 * Millisecond,
     MaxDelay |-> 30 * Second,
     Backoff |-> BackoffExponential,
     Jitter |-> TRUE,
     JitterFraction |-> 3,
     RetryOnStatusCodes |-> <<>>,
     CircuitBreaker |-> FALSE,
     CircuitBreakerThreshold |-> 5,
     CircuitBreakerTimeout |-> 60 * Second,
     CircuitBreakerHalfOpenRequests |-> 1]

\* models.NewRetryOptions; JitterFraction in tenths
NewRetryOptions ==
    [MaxRetries |-> 3,
     InitialDelay |-> 100 * Millisecond,
     MaxDelay |-> 30 * Second,
     Backoff |-> BackoffExponential,
     Jitter |-> TRUE,
     JitterFraction |-> 3,
     RetryOnStatusCodes |-> <<>>,
     CircuitBreaker |-> FALSE,
     CircuitBreakerThreshold |-> 5,
     CircuitBreakerTimeout |-> 60 * Second,
     CircuitBreakerHalfOpenRequests |-> 1]

\* No RetryManager built.
NoManager == [built |-> FALSE]

\* NewRetryManager(options): nil options are replaced by the defaults.
NewRetryManager(options) ==
    [built |-> TRUE,
     given |-> options,
     options |-> IF options = NilOptions THEN NewRetryOptions ELSE options]

\* Options a caller writes out, as the tests do.
CustomOptions ==
    {[MaxRetries |-> 2, InitialDelay |-> 10 * Millisecond, MaxDelay |-> 1 * Second,
      Backoff |-> BackoffLinear, Jitter |-> FALSE, JitterFraction |-> 0,
      RetryOnStatusCodes |-> <<429>>, CircuitBreaker |-> TRUE,
      CircuitBreakerThreshold |-> 3, CircuitBreakerTimeout |-> 100 * Millisecond,
      CircuitBreakerHalfOpenRequests |-> 1],
     [MaxRetries |-> 0, InitialDelay |-> 0, MaxDelay |-> 0,
      Backoff |-> "", Jitter |-> FALSE, JitterFraction |-> 0,
      RetryOnStatusCodes |-> <<>>, CircuitBreaker |-> FALSE,
      CircuitBreakerThreshold |-> 0, CircuitBreakerTimeout |-> 0,
      CircuitBreakerHalfOpenRequests |-> 0]}

\* The elements of a sequence.
Range(q) == {q[i] : i \in DOMAIN q}

\* ------------------------------------------------------------ specifications
InitBreaker ==
    /\ circuits = EmptyCircuits
    /\ now = 1
    /\ last = NoCall
    /\ winPermits = [k \in Keys |-> 0]
    /\ winSuccesses = [k \in Keys |-> 0]

\* No direct call of ShouldRetry or CalculateDelay made, no cancellation fired.
InitCalls ==
    /\ decision = NoDecision
    /\ delayCall = NoDelayCall
    /\ cancel = [o \in Ops |-> NoCancel]

\* No goroutine inside a breaker method.
InitCallers ==
    /\ streak = [k \in Keys |-> 0]
    /\ mu = 0
    /\ callers = [t \in Callers |-> Idle]
    /\ serial = EmptyCircuits
    /\ trial = [o \in Ops |-> FALSE]

InitAux ==
    /\ InitCalls
    /\ InitCallers
    /\ heap = NoHeap
    /\ manager = NoManager

\* The backoff defaults of NewRetryOptions: a short initial delay, a long
\* maximal one, exponential backoff, jitter of 0.3.
InitBackoff ==
    /\ initialDelay = 1
    /\ maxDelay = MaxDuration
    /\ backoff = BackoffExponential
    /\ jitter = TRUE
    /\ jitterFraction = 3

InitOps ==
    /\ pc = [o \in Ops |-> "idle"]
    /\ opKey = [o \in Ops |-> "/a"]
    /\ attempt = [o \in Ops |-> 0]
    /\ physical = [o \in Ops |-> 0]
    /\ permits = [o \in Ops |-> 0]
    /\ outcome = [o \in Ops |-> NoOutcome]
    /\ result = [o \in Ops |-> NoResult]

\* NewCircuitBreaker(threshold, timeout, halfOpenRequests): an empty map and
\* whatever configuration the caller passes (the constructor validates nothing).
Init ==
    /\ InitBreaker
    /\ threshold \in 1..MaxThreshold
    /\ timeout \in 1..MaxTimeout
    /\ halfOpenRequests \in 0..MaxHalfOpen
    /\ retryOptions = TRUE
    /\ maxRetries = 0
    /\ circuitBreaker = TRUE
    /\ retryOnStatusCodes = {}
    /\ InitOps
    /\ InitBackoff
    /\ InitAux

Next ==
    \/ \E k \in Keys : CanAttempt(k)
    \/ \E k \in Keys : RecordSuccess(k)
    \/ \E k \in Keys : RecordFailure(k)
    \/ \E k \in Keys : Reset(k)
    \/ Tick

Spec == Init /\ [][Next]_vars

\* Logical operations issued one after another, circuit breaking enabled, no
\* retries, against a server that fails every request.
FailingOutcomes == {out \in Outcomes : out.err \/ (out.status >= 500 /\ out.status < 600)}

InitSeq ==
    /\ InitBreaker
    /\ threshold \in 0..MaxThreshold
    /\ timeout \in 1..MaxTimeout
    /\ halfOpenRequests \in 0..MaxHalfOpen
    /\ retryOptions = TRUE
    /\ maxRetries = 0
    /\ circuitBreaker = TRUE
    /\ retryOnStatusCodes = {}
    /\ InitOps
    /\ InitBackoff
    /\ InitAux

StartSeq(o, k) ==
    /\ \A p \in Ops : p < o => pc[p] = "done"
    /\ Start(o, k)

NextSeq ==
    \/ \E o \in Ops, k \in Keys : StartSeq(o, k)
    \/ \E o \in Ops : Gate(o)
    \/ \E o \in Ops, out \in FailingOutcomes : Attempt(o, out)
    \/ Tick

SpecSeq == InitSeq /\ [][NextSeq]_vars

\* The logical operations of one client on one endpoint, with any retry
\* configuration and any outcome of each physical request.
InitCtl ==
    /\ InitBreaker
    /\ retryOptions \in BOOLEAN
    /\ circuitBreaker \in (IF retryOptions THEN BOOLEAN ELSE {FALSE})
    /\ maxRetries \in (IF retryOptions THEN 0..MaxRetriesBound ELSE {0})
    /\ retryOnStatusCodes \in (IF retryOptions THEN {{}, {429}} ELSE {{}})
    /\ threshold \in (IF circuitBreaker THEN 1..MaxThreshold ELSE {1})
    /\ timeout = 1
    /\ halfOpenRequests \in (IF circuitBreaker THEN {0, 1} ELSE {1})
    /\ InitOps
    /\ InitBackoff
    /\ InitAux

CtlKeys == {"/a"}

StartCtl(o, k) ==
    /\ o <= MaxConcurrent
    /\ Start(o, k)

NextCtl ==
    \/ \E o \in Ops, k \in CtlKeys : StartCtl(o, k)
    \/ \E o \in Ops : Gate(o)
    \/ \E o \in Ops, out \in Outcomes : Attempt(o, out)
    \/ \E o \in Ops : Wait(o)
    \/ \E o \in Ops : Return(o)
    \/ Tick

SpecCtl == InitCtl /\ [][NextCtl]_vars

\* The breaker with its introspection operations, for one timeout and one
\* half-open trial.
InitQuery ==
    /\ InitBreaker
    /\ threshold \in 1..MaxThreshold
    /\ timeout = 1
    /\ halfOpenRequests = 1
    /\ retryOptions = TRUE
    /\ maxRetries = 0
    /\ circuitBreaker = TRUE
    /\ retryOnStatusCodes = {}
    /\ InitOps
    /\ InitBackoff
    /\ InitAux

NextQuery ==
    \/ \E k \in Keys : CanAttempt(k)
    \/ \E k \in Keys : RecordSuccess(k)
    \/ \E k \in Keys : RecordFailure(k)
    \/ \E k \in Keys : Reset(k)
    \/ \E k \in Keys : GetState(k)
    \/ ResetAll
    \/ Tick

SpecQuery == InitQuery /\ [][NextQuery]_vars

\* Operations that retry, whose callers may cancel them during the backoff wait.
InitCancel ==
    /\ InitCtl
    /\ retryOptions
    /\ maxRetries >= 1

NextCancel ==
    \/ \E o \in Ops, k \in CtlKeys : StartCtl(o, k)
    \/ \E o \in Ops : Gate(o)
    \/ \E o \in Ops, out \in Outcomes : Attempt(o, out)
    \/ \E o \in Ops : WaitReturns(o)
    \/ \E o \in Ops : Cancel(o)
    \/ Tick

SpecCancel == InitCancel /\ [][NextCancel]_vars

\* Goroutines calling the breaker's methods for one key at the same time.
InitConc ==
    /\ InitBreaker
    /\ threshold \in 1..MaxThreshold
    /\ timeout = 1
    /\ halfOpenRequests = 1
    /\ retryOptions = TRUE
    /\ maxRetries = 0
    /\ circuitBreaker = TRUE
    /\ retryOnStatusCodes = {}
    /\ InitOps
    /\ InitBackoff
    /\ InitAux

NextConc ==
    \/ \E t \in Callers, name \in CallNames, k \in ConcKeys : Enter(t, name, k)
    \/ \E t \in Callers : Lock(t)
    \/ \E t \in Callers : Load(t)
    \/ \E t \in Callers : Store(t)
    \/ \E t \in Callers : Unlock(t)
    \/ Tick

SpecConc == InitConc /\ [][NextConc]_vars

\* The breaker's calls one at a time on one key, for every configuration the
\* constructor accepts, with the failures since the last success counted.
RecordKeys == {"/a"}

InitRecord ==
    /\ InitBreaker
    /\ threshold \in 0..MaxThreshold
    /\ timeout \in 0..MaxTimeout
    /\ halfOpenRequests \in 0..MaxHalfOpen
    /\ retryOptions = TRUE
    /\ maxRetries = 0
    /\ circuitBreaker = TRUE
    /\ retryOnStatusCodes = {}
    /\ InitOps
    /\ InitBackoff
    /\ InitAux

NextRecord ==
    \/ \E k \in RecordKeys : CanAttemptCounted(k)
    \/ \E k \in RecordKeys : RecordSuccessCounted(k)
    \/ \E k \in RecordKeys : RecordFailureCounted(k)
    \/ \E k \in RecordKeys : ResetCounted(k)
    \/ Tick

SpecRecord == InitRecord /\ [][NextRecord]_vars

\* Every method of the breaker, called one at a time on one key, for every
\* configuration the constructor accepts.
NextBreaker ==
    \/ \E k \in RecordKeys : CanAttempt(k)
    \/ \E k \in RecordKeys : RecordSuccess(k)
    \/ \E k \in RecordKeys : RecordFailure(k)
    \/ \E k \in RecordKeys : Reset(k)
    \/ \E k \in RecordKeys : GetState(k)
    \/ \E k \in RecordKeys : IsOpen(k)
    \/ ResetAll
    \/ Tick

SpecBreaker == InitRecord /\ [][NextBreaker]_vars

\* Two configurations built by a caller, as in TestConfigMerge: config1 from
\* NewConfig with its fields set, with or without retry options; config2 a
\* literal that sets any of its fields. Each has a Headers map of its own.
\* Object 1 of heap.maps and heap.opts is config1's, object 2 config2's;
\* config1's status codes are empty, one code, or no code on an array with room.
HeapOf(u2, t2, h2, v2, r1, r2) ==
    [configs |-> [c \in {"config1", "config2"} |->
                     IF c = "config1"
                     THEN [BaseURL |-> "https://api.example.com", Timeout |-> 5,
                           Headers |-> 1, StatusValidator |-> "default",
                           RetryOptions |-> IF r1 = "nil" THEN 0 ELSE 1]
                     ELSE [BaseURL |-> u2, Timeout |-> t2, Headers |-> 2,
                           StatusValidator |-> v2,
                           RetryOptions |-> IF r2 THEN 2 ELSE 0]],
     maps |-> << [k \in {"Authorization"} |-> "Bearer token1"], h2 >>,
     opts |-> << [MaxRetries |-> 3,
                  RetryOnStatusCodes |->
                      CASE r1 = "one" -> [arr |-> 1, len |-> 1]
                        [] r1 = "room" -> [arr |-> 1, len |-> 0]
                        [] OTHER -> [arr |-> 0, len |-> 0]],
                 [MaxRetries |-> 1, RetryOnStatusCodes |-> [arr |-> 2, len |-> 1]] >>,
     arrays |-> << <<429>>, <<503>> >>,
     origin |-> <<>>,
     made |-> <<>>]

InitMerge ==
    /\ InitBreaker
    /\ threshold = 1
    /\ timeout = 1
    /\ halfOpenRequests = 1
    /\ retryOptions = TRUE
    /\ circuitBreaker = FALSE
    /\ maxRetries = 0
    /\ retryOnStatusCodes = {}
    /\ InitOps
    /\ InitBackoff
    /\ InitCalls
    /\ InitCallers
    /\ manager = NoManager
    /\ \E u2 \in {"", "https://api2.example.com"}, t2 \in {0, 7},
          h2 \in {<<>>, [k \in {"X-Custom"} |-> "value"],
                  [k \in {"Authorization"} |-> "Bearer token2"]},
          v2 \in {"nil", "custom"},
          r1 \in {"nil", "none", "one", "room"}, r2 \in BOOLEAN :
          LET h == HeapOf(u2, t2, h2, v2, r1, r2)
          IN  heap = [h EXCEPT !.origin = [c \in {"config1", "config2"} |-> View(h, c)]]

NextMerge ==
    \/ MergeCall
    \/ CloneCall
    \/ \E c \in Derived, k \in HeaderKeys : SetHeader(c, k, "changed")
    \/ \E c \in Derived, i \in 1..MaxCodes : SetRetryCode(c, i, 418)
    \/ \E c \in Derived : AppendRetryCode(c, 418)

SpecMerge == InitMerge /\ [][NextMerge]_vars

\* Direct calls of ShouldRetry with any attempt index, status code and error.
StatusCodes == {0, 200, 404, 429, 499, 500, 503, 599, 600}

InitRetry ==
    /\ InitBreaker
    /\ threshold = 1
    /\ timeout = 1
    /\ halfOpenRequests = 1
    /\ retryOptions = TRUE
    /\ circuitBreaker = FALSE
    /\ maxRetries \in 0..MaxRetriesBound
    /\ retryOnStatusCodes \in {{}, {429}, {404, 429}}
    /\ InitOps
    /\ InitBackoff
    /\ InitAux

NextRetry ==
    \E a \in 0..(MaxRetriesBound + 1), statusCode \in StatusCodes, err \in BOOLEAN :
        ShouldRetryCall(a, statusCode, err)

SpecRetry == InitRetry /\ [][NextRetry]_vars

\* A RetryManager built by NewRetryManager from nil or from written-out
\* options, and asked for retry decisions.
InitManager ==
    /\ InitBreaker
    /\ threshold = 1
    /\ timeout = 1
    /\ halfOpenRequests = 1
    /\ retryOptions = TRUE
    /\ \E options \in {NilOptions} \cup CustomOptions :
           manager = NewRetryManager(options)
    /\ maxRetries = manager.options.MaxRetries
    /\ retryOnStatusCodes = Range(manager.options.RetryOnStatusCodes)
    /\ circuitBreaker = manager.options.CircuitBreaker
    /\ InitOps
    /\ InitBackoff
    /\ InitCalls
    /\ InitCallers
    /\ heap = NoHeap

SpecManager == InitManager /\ [][NextRetry]_vars

\* Direct calls of CalculateDelay, jitter disabled, for every strategy (the
\* empty strategy name is the zero value of an unset Backoff field) and every
\* non-negative initial and maximal delay.
Strategies == {BackoffExponential, BackoffLinear, BackoffFixed, ""}

InitDelay ==
    /\ InitBreaker
    /\ threshold = 1
    /\ timeout = 1
    /\ halfOpenRequests = 1
    /\ retryOptions = TRUE
    /\ circuitBreaker = FALSE
    /\ maxRetries = 0
    /\ retryOnStatusCodes = {}
    /\ InitOps
    /\ initialDelay \in 0..MaxDuration
    /\ maxDelay \in 0..MaxDuration
    /\ backoff \in Strategies
    /\ jitter = FALSE
    /\ jitterFraction = 0
    /\ InitAux

NextDelay == \E n \in 0..MaxAttemptIndex : CalculateDelay(n)

SpecDelay == InitDelay /\ [][NextDelay]_vars

\* Direct calls of CalculateDelay with jitter enabled and any configured fraction.
JitterFractions == {-5, 0, 3, 5, 10, 15}

InitJitter ==
    /\ InitBreaker
    /\ threshold = 1
    /\ timeout = 1
    /\ halfOpenRequests = 1
    /\ retryOptions = TRUE
    /\ circuitBreaker = FALSE
    /\ maxRetries = 0
    /\ retryOnStatusCodes = {}
    /\ InitOps
    /\ initialDelay \in 0..MaxDuration
    /\ maxDelay \in {MaxDuration \div 2, MaxDuration}
    /\ backoff \in {BackoffExponential, BackoffFixed}
    /\ jitter = TRUE
    /\ jitterFraction \in JitterFractions
    /\ InitAux

SpecJitter == InitJitter /\ [][NextDelay]_vars

\* Direct calls of CalculateDelay by a manager whose options name no known
\* strategy: the empty value of a literal that leaves Backoff out, or any other.
UnknownStrategies == {"", "quadratic"}

InitStrategy ==
    /\ InitBreaker
    /\ threshold = 1
    /\ timeout = 1
    /\ halfOpenRequests = 1
    /\ retryOptions = TRUE
    /\ circuitBreaker = FALSE
    /\ maxRetries = 0
    /\ retryOnStatusCodes = {}
    /\ InitOps
    /\ initialDelay \in 0..MaxDuration
    /\ maxDelay \in {MaxDuration \div 4, MaxDuration}
    /\ backoff \in UnknownStrategies
    /\ jitter \in BOOLEAN
    /\ jitterFraction \in {0, 5}
    /\ InitAux

SpecStrategy == InitStrategy /\ [][NextDelay]_vars

\* Callers that keep issuing logical operations for one endpoint, several at a
\* time, without retries: every operation started reaches its gate check, the
\* outcome of every permitted attempt is recorded, and every caller takes its
\* result and issues the next operation.
InitLive ==
    /\ InitBreaker
    /\ threshold = 1
    /\ timeout = 1
    /\ halfOpenRequests \in 0..MaxHalfOpen
    /\ retryOptions = TRUE
    /\ maxRetries = 0
    /\ circuitBreaker = TRUE
    /\ retryOnStatusCodes = {}
    /\ InitOps
    /\ InitBackoff
    /\ InitAux

StartLive(o, k) ==
    /\ o \in Callers
    /\ Start(o, k)

NextLive ==
    \/ \E o \in Ops, k \in CtlKeys : StartLive(o, k)
    \/ \E o \in Ops : Gate(o)
    \/ \E o \in Ops, out \in Outcomes : Attempt(o, out)
    \/ \E o \in Ops : Return(o)
    \/ Tick

FairLive ==
    \A o \in Callers :
        /\ WF_vars(\E k \in CtlKeys : StartLive(o, k))
        /\ WF_vars(Gate(o))
        /\ WF_vars(\E out \in Outcomes : Attempt(o, out))
        /\ WF_vars(Return(o))

SpecLive == InitLive /\ [][NextLive]_vars /\ FairLive

\* Logical operations of several callers on one endpoint at the same time,
\* without retries, with the half-open window of every permit noted: trial[o]
\* holds from the gate check that permits o's attempt in a half-open window
\* until the outcome is recorded or the window ends.
GateTrial(o) ==
    /\ GateCheck(o)
    /\ trial' = [p \in Ops |->
                    IF p = o
                    THEN /\ Breaking
                         /\ CanAttemptReturns(circuits, opKey[o])
                         /\ StateOf(circuits', opKey[o]) = CircuitBreakerHalfOpen
                    ELSE /\ trial[p]
                         /\ opKey[p] = opKey[o]
                                => StateOf(circuits, opKey[o]) = CircuitBreakerHalfOpen]
    /\ UNCHANGED <<decision, delayCall, cancel, streak, mu, callers, serial, heap, manager>>

AttemptTrial(o, out) ==
    /\ AttemptOutcome(o, out)
    /\ trial' = [p \in Ops |->
                    /\ p # o
                    /\ trial[p]
                    /\ opKey[p] = opKey[o]
                           => StateOf(circuits', opKey[o]) = CircuitBreakerHalfOpen]
    /\ UNCHANGED <<decision, delayCall, cancel, streak, mu, callers, serial, heap, manager>>

InitLate ==
    /\ InitBreaker
    /\ threshold = 1
    /\ timeout = 1
    /\ halfOpenRequests \in 1..(MaxHalfOpen + 1)
    /\ retryOptions = TRUE
    /\ maxRetries = 0
    /\ circuitBreaker = TRUE
    /\ retryOnStatusCodes = {}
    /\ InitOps
    /\ InitBackoff
    /\ InitAux

NextLate ==
    \/ \E o \in Ops, k \in CtlKeys : Start(o, k)
    \/ \E o \in Ops : GateTrial(o)
    \/ \E o \in Ops, out \in Outcomes : AttemptTrial(o, out)
    \/ \E o \in Ops : Return(o)
    \/ Tick

SpecLate == InitLate /\ [][NextLate]_vars

\* ------------------------------------------------------------------- claims
\* The key's record after the call that has just returned.
LastRecord == circuits[last.key]

\* The call that has just returned is a gate check on an open circuit.
GateOnOpen == last.op = "CanAttempt" /\ last.pre.state = CircuitBreakerOpen

\* C2: while the circuit of a key is open and less than the open timeout has
\* elapsed since openedAt, every gate check for the key denies the attempt and
\* leaves the record as it was, whatever calls were made on other keys.
OpenDeniesBeforeTimeout ==
    (GateOnOpen /\ now - last.pre.openedAt < timeout)
        => (~last.ret /\ LastRecord = last.pre)

\* A denied gate check on an open circuit while the other key's circuit is in use.
OpenDeniesBeforeTimeoutWitness ==
    /\ GateOnOpen
    /\ now - last.pre.openedAt < timeout
    /\ ~last.ret
    /\ \E b \in Keys \ {last.key} : StateOf(circuits, b) = CircuitBreakerHalfOpen

\* C3 as stated: for every accepted configuration the first gate check after the
\* open timeout permits the attempt and leaves the circuit half-open, and the
\* success of that attempt closes the circuit.
RecoveryForEveryConfiguration ==
    /\ (GateOnOpen /\ now - last.pre.openedAt >= timeout)
           => (last.ret /\ LastRecord.state = CircuitBreakerHalfOpen)
    /\ (/\ last.op = "RecordSuccess"
        /\ last.pre.state = CircuitBreakerHalfOpen
        /\ last.pre.halfOpenAttempts = 1
        /\ last.pre.halfOpenSuccessCount = 0)
           => LastRecord.state = CircuitBreakerClosed

\* C3, amended: the first gate check after the open timeout turns the circuit
\* half-open with fresh counters and permits the attempt exactly when
\* halfOpenRequests >= 1; the first success recorded in the window closes the
\* circuit exactly when halfOpenRequests <= 1.
RecoveryAfterTimeout ==
    /\ (GateOnOpen /\ now - last.pre.openedAt >= timeout)
           => /\ LastRecord.state = CircuitBreakerHalfOpen
              /\ last.ret <=> halfOpenRequests >= 1
              /\ LastRecord.halfOpenAttempts = (IF last.ret THEN 1 ELSE 0)
              /\ LastRecord.halfOpenSuccessCount = 0
    /\ (/\ last.op = "RecordSuccess"
        /\ last.pre.state = CircuitBreakerHalfOpen
        /\ last.pre.halfOpenSuccessCount = 0)
           => (LastRecord.state = CircuitBreakerClosed <=> halfOpenRequests <= 1)

\* The one permitted trial of a half-open window succeeded and closed the circuit.
RecoveryAfterTimeoutWitness ==
    /\ last.op = "RecordSuccess"
    /\ last.pre.state = CircuitBreakerHalfOpen
    /\ last.pre.halfOpenAttempts = 1
    /\ last.pre.halfOpenSuccessCount = 0
    /\ last.pre.openedAt < now
    /\ halfOpenRequests = 1
    /\ LastRecord.state = CircuitBreakerClosed

\* C4: a success recorded in half-open closes the circuit, with failureCount 0,
\* exactly when the successes of the current window reach halfOpenRequests;
\* with fewer successes the circuit stays half-open.
HalfOpenSuccessHonoursCount ==
    (last.op = "RecordSuccess" /\ last.pre.state = CircuitBreakerHalfOpen)
        => LET n == winSuccesses[last.key]
           IN  /\ LastRecord.halfOpenSuccessCount = n
               /\ n >= halfOpenRequests
                      => /\ LastRecord.state = CircuitBreakerClosed
                         /\ LastRecord.failureCount = 0
               /\ n < halfOpenRequests
                      => LastRecord = [last.pre EXCEPT !.halfOpenSuccessCount = n]
               /\ (halfOpenRequests >= 1 /\ LastRecord.state = CircuitBreakerClosed)
                      => n = halfOpenRequests

\* A success that is not yet enough: the circuit stays half-open.
HalfOpenSuccessHonoursCountWitness ==
    /\ last.op = "RecordSuccess"
    /\ last.pre.state = CircuitBreakerHalfOpen
    /\ last.pre.failureCount >= 1
    /\ winSuccesses[last.key] = 1
    /\ halfOpenRequests = 2
    /\ LastRecord.state = CircuitBreakerHalfOpen

\* C5: a failure recorded in half-open opens the circuit in that step, sets
\* openedAt to the current time, so the gate denies again until a full timeout
\* has passed, and resets both half-open counters, whatever they were.
HalfOpenFailureReopens ==
    (last.op = "RecordFailure" /\ last.pre.state = CircuitBreakerHalfOpen)
        => /\ LastRecord.state = CircuitBreakerOpen
           /\ LastRecord.openedAt = now
           /\ LastRecord.halfOpenAttempts = 0
           /\ LastRecord.halfOpenSuccessCount = 0
           /\ timeout > 0 => ~CanAttemptReturns(circuits, last.key)

\* A failure after a success of the same window, later than the first opening.
HalfOpenFailureReopensWitness ==
    /\ last.op = "RecordFailure"
    /\ last.pre.state = CircuitBreakerHalfOpen
    /\ last.pre.halfOpenSuccessCount >= 1
    /\ last.pre.halfOpenAttempts >= 1
    /\ last.pre.openedAt < now

\* The permits already given in the window in which the last gate check ran.
PermitsBefore ==
    IF last.pre.state = CircuitBreakerHalfOpen THEN last.pre.halfOpenAttempts ELSE 0

\* C6: the gate checks of one half-open window permit at most halfOpenRequests
\* attempts in any interleaving of callers; each permit adds one to
\* halfOpenAttempts and every gate check after the budget is used up denies.
HalfOpenBudgetHonoured ==
    /\ \A k \in Keys :
           /\ winPermits[k] <= halfOpenRequests
           /\ StateOf(circuits, k) = CircuitBreakerHalfOpen
                  => circuits[k].halfOpenAttempts = winPermits[k]
    /\ (last.op = "CanAttempt" /\ LastRecord.state = CircuitBreakerHalfOpen)
           => /\ last.ret <=> PermitsBefore < halfOpenRequests
              /\ LastRecord.halfOpenAttempts = PermitsBefore + (IF last.ret THEN 1 ELSE 0)

\* A gate check denied because two earlier gate checks of the window permitted.
HalfOpenBudgetHonouredWitness ==
    /\ last.op = "CanAttempt"
    /\ last.pre.state = CircuitBreakerHalfOpen
    /\ last.pre.halfOpenAttempts = 2
    /\ winPermits[last.key] = 2
    /\ ~last.ret

\* C7: a call of CanAttempt, RecordSuccess, RecordFailure or Reset on key a
\* leaves the record of every other key b, and so the answer b's gate check
\* would give, unchanged.
KeysIsolated ==
    [][\A a \in Keys :
          (last'.op # "none" /\ last'.key = a)
              => \A b \in Keys \ {a} :
                     /\ RecordOf(circuits', b) = RecordOf(circuits, b)
                     /\ CanAttemptReturns(circuits', b) = CanAttemptReturns(circuits, b)]_vars

\* Key a's circuit is open and denying while a gate check on the other key,
\* which already has failures of its own, has just permitted an attempt.
KeysIsolatedWitness ==
    \E a \in Keys :
        /\ StateOf(circuits, a) = CircuitBreakerOpen
        /\ ~CanAttemptReturns(circuits, a)
        /\ last.op = "CanAttempt"
        /\ last.key # a
        /\ last.pre.state = CircuitBreakerClosed
        /\ last.pre.failureCount >= 1
        /\ last.ret

\* The position of operation o among the operations issued so far for its key.
Rank(o) ==
    Cardinality({p \in Ops : p < o /\ pc[p] # "idle" /\ opKey[p] = opKey[o]}) + 1

\* No operation issued after o for the same key has passed its gate check.
NoLaterAttempt(o) ==
    \A p \in Ops : (p > o /\ opKey[p] = opKey[o]) => pc[p] \in {"idle", "gate"}

\* C1: with threshold T >= 1, operations issued one after another for a key
\* not seen before, without retries, and every attempt failing: none of the
\* first T is rejected and each makes one physical attempt, the circuit is open
\* once the T-th failure is recorded, and the (T+1)-th operation, gated before
\* the open timeout has elapsed, is rejected with the circuit-open error and
\* without a physical attempt.
ThresholdOpensCircuit ==
    threshold >= 1 =>
        \A o \in Ops :
            pc[o] # "idle" =>
                /\ Rank(o) <= threshold
                       => /\ result[o] # CircuitOpenError
                          /\ physical[o] = (IF pc[o] = "done" THEN 1 ELSE 0)
                          /\ pc[o] = "done" => result[o] = Returned(outcome[o])
                /\ (Rank(o) = threshold /\ pc[o] = "done" /\ NoLaterAttempt(o))
                       => /\ circuits[opKey[o]].state = CircuitBreakerOpen
                          /\ circuits[opKey[o]].failureCount = threshold
                /\ (Rank(o) = threshold + 1 /\ last.op = "CanAttempt" /\ last.by = o)
                       => /\ last.pre.state = CircuitBreakerOpen
                          /\ now - last.pre.openedAt < timeout
                                 => /\ ~last.ret
                                    /\ pc[o] = "done"
                                    /\ result[o] = CircuitOpenError
                                    /\ physical[o] = 0

\* MaxThreshold failed operations on one key, and the next one rejected.
ThresholdOpensCircuitWitness ==
    \E o \in Ops :
        /\ threshold = MaxThreshold
        /\ Rank(o) = threshold + 1
        /\ \A p \in Ops : p < o => (pc[p] = "done" /\ physical[p] = 1 /\ opKey[p] = opKey[o])
        /\ last.op = "CanAttempt" /\ last.by = o
        /\ result[o] = CircuitOpenError
        /\ physical[o] = 0

\* C8: with circuit breaking enabled every physical attempt of an operation
\* has its own permitting gate check before it; a denying gate check ends the
\* operation at once with the circuit-open error, with no physical request, no
\* backoff wait and no retry decision for that attempt.
GateBeforeEveryAttempt ==
    \A o \in Ops :
        /\ Breaking
               => /\ permits[o] = physical[o] + (IF pc[o] = "attempt" THEN 1 ELSE 0)
                  /\ pc[o] = "gate" => permits[o] = attempt[o]
                  /\ pc[o] \in {"attempt", "wait"} => permits[o] = attempt[o] + 1
        /\ (last.op = "CanAttempt" /\ last.by = o /\ last.pre.state = CircuitBreakerOpen
                /\ now - last.pre.openedAt < timeout)
               => ~last.ret
        /\ (last.op = "CanAttempt" /\ last.by = o /\ ~last.ret)
               => /\ pc[o] = "done"
                  /\ result[o] = CircuitOpenError
        /\ result[o] = CircuitOpenError
               => /\ Breaking
                  /\ pc[o] = "done"
                  /\ physical[o] = attempt[o]
                  /\ permits[o] = attempt[o]

\* The gate check of a retry denies: the operation's own failure opened the circuit.
GateBeforeEveryAttemptWitness ==
    \E o \in Ops :
        /\ last.op = "CanAttempt" /\ last.by = o /\ ~last.ret
        /\ attempt[o] >= 1
        /\ physical[o] = attempt[o]
        /\ result[o] = CircuitOpenError

\* An outcome the retry decision classifies as retryable.
Retryable(out) == out.err \/ ShouldRetryStatus(out.status)

\* C9: with maxRetries = N and circuit breaking disabled, an operation whose
\* attempts all fail with a retryable outcome makes exactly N + 1 physical
\* attempts, one at a time, and returns the outcome of the last one.
RetryExhaustion ==
    ~Breaking =>
        \A o \in Ops :
            /\ physical[o] <= maxRetries + 1
            /\ physical[o] = attempt[o] + (IF pc[o] \in {"wait", "done"} THEN 1 ELSE 0)
            /\ pc[o] = "wait" => Retryable(outcome[o])
            /\ pc[o] = "done"
                   => /\ result[o] = Returned(outcome[o])
                      /\ Retryable(outcome[o]) => physical[o] = maxRetries + 1

\* MaxRetriesBound retries were used up and the last transport error is returned.
RetryExhaustionWitness ==
    \E o \in Ops :
        /\ ~Breaking
        /\ retryOptions
        /\ maxRetries = MaxRetriesBound
        /\ pc[o] = "done"
        /\ physical[o] = MaxRetriesBound + 1
        /\ outcome[o] = TransportError
        /\ result[o] = Returned(TransportError)

\* C10: with maxRetries = 0, or no retry configuration, and circuit breaking
\* disabled, an operation makes exactly one physical attempt whatever its
\* outcome, and never waits for a retry.
SingleAttemptWithoutRetries ==
    ((~retryOptions \/ maxRetries = 0) /\ ~Breaking) =>
        \A o \in Ops :
            /\ attempt[o] = 0
            /\ pc[o] # "wait"
            /\ physical[o] = (IF pc[o] = "done" THEN 1 ELSE 0)
            /\ pc[o] = "done" => result[o] = Returned(outcome[o])

\* A retryable status answered the only attempt of a client configured with maxRetries = 0.
SingleAttemptWithoutRetriesWitness ==
    \E o \in Ops :
        /\ retryOptions
        /\ maxRetries = 0
        /\ ~circuitBreaker
        /\ pc[o] = "done"
        /\ physical[o] = 1
        /\ outcome[o] = Response(500)

\* C11: ShouldRetry(attempt, status, err) is true exactly when attempt <
\* maxRetries and (err is set, or status is in 500..599, or status is one of
\* RetryOnStatusCodes); the attempt bound comes first, so an error at
\* attempt >= maxRetries is not retried.
ShouldRetryTruthTable ==
    decision.op = "ShouldRetry" =>
        /\ decision.ret <=>
               /\ decision.attempt < maxRetries
               /\ \/ decision.err
                  \/ decision.status \in 500..599
                  \/ decision.status \in retryOnStatusCodes
        /\ (decision.attempt >= maxRetries /\ decision.err) => ~decision.ret

\* A transport error at the last permitted attempt index is not retried.
ShouldRetryTruthTableWitness ==
    /\ decision.op = "ShouldRetry"
    /\ decision.err
    /\ maxRetries >= 1
    /\ decision.attempt = maxRetries
    /\ ~decision.ret

\* The value the strategy's formula has in exact arithmetic.
StrategyFormula(n) ==
    CASE backoff = BackoffLinear -> initialDelay * (n + 1)
      [] backoff = BackoffFixed -> initialDelay
      [] OTHER -> initialDelay * 2^n

\* C13: with jitter disabled and the exponential strategy, CalculateDelay(n) is
\* initialDelay * 2^n whenever that value does not exceed maxDelay.
ExponentialDelayExact ==
    (/\ delayCall.op = "CalculateDelay"
     /\ ~jitter
     /\ backoff = BackoffExponential
     /\ initialDelay * 2^delayCall.attempt <= maxDelay)
        => delayCall.ret = initialDelay * 2^delayCall.attempt

\* C14: with jitter disabled, the linear strategy gives initialDelay * (n + 1)
\* and the fixed strategy gives initialDelay, as long as the value does not
\* exceed maxDelay.
LinearAndFixedDelayExact ==
    (delayCall.op = "CalculateDelay" /\ ~jitter)
        => /\ (backoff = BackoffLinear /\ initialDelay * (delayCall.attempt + 1) <= maxDelay)
                  => delayCall.ret = initialDelay * (delayCall.attempt + 1)
           /\ (backoff = BackoffFixed /\ initialDelay <= maxDelay)
                  => delayCall.ret = initialDelay

\* The linear delay of the highest attempt index, grown and still below the cap.
LinearAndFixedDelayExactWitness ==
    /\ delayCall.op = "CalculateDelay"
    /\ backoff = BackoffLinear
    /\ delayCall.attempt = MaxAttemptIndex
    /\ initialDelay >= 2
    /\ delayCall.ret = initialDelay * (MaxAttemptIndex + 1)
    /\ delayCall.ret < maxDelay

\* C15: with jitter disabled CalculateDelay(n) never exceeds maxDelay, and is
\* exactly maxDelay whenever the strategy's formula gives more than maxDelay.
DelayCappedAtMaxDelay ==
    (delayCall.op = "CalculateDelay" /\ ~jitter)
        => /\ delayCall.ret <= maxDelay
           /\ StrategyFormula(delayCall.attempt) > maxDelay => delayCall.ret = maxDelay

\* The fraction the claim names, in tenths.
ClaimedFraction ==
    IF jitterFraction <= 0 THEN 3 ELSE IF jitterFraction > 10 THEN 10 ELSE jitterFraction

\* C16: with jitter enabled every result of CalculateDelay(n) lies in
\* [D * (1 - f), D * (1 + f)], D the capped jitter-free delay and f the
\* effective fraction, and is never negative.
JitterWithinFraction ==
    (delayCall.op = "CalculateDelay" /\ jitter)
        => /\ delayCall.ret >= 0
           /\ delayCall.capped * (10 - ClaimedFraction) <= 10 * delayCall.ret
           /\ 10 * delayCall.ret <= delayCall.capped * (10 + ClaimedFraction)

\* C17: for non-negative initialDelay and maxDelay, every strategy and every
\* attempt index, CalculateDelay(n) is a non-negative delay, also when the
\* strategy's formula leaves the range of the duration type.
DelayNeverNegative ==
    (delayCall.op = "CalculateDelay" /\ initialDelay >= 0 /\ maxDelay >= 0)
        => delayCall.ret >= 0

\* C12 as stated: an operation ends only on its first non-retryable outcome,
\* which it returns, unless all of its maxRetries + 1 attempts were retryable;
\* no attempt follows a non-retryable outcome.
FirstNonRetryableEnds ==
    \A o \in Ops :
        /\ (pc[o] \in {"gate", "attempt", "wait"} /\ physical[o] >= 1)
               => Retryable(outcome[o])
        /\ pc[o] = "done"
               => \/ /\ physical[o] = attempt[o] + 1
                     /\ ~Retryable(outcome[o])
                     /\ result[o] = Returned(outcome[o])
                  \/ physical[o] = maxRetries + 1

\* C12, amended: the same, unless the circuit breaker is enabled and a gate
\* check of the operation denies, which ends the operation with the
\* circuit-open error after the retryable outcomes seen so far.
FirstNonRetryableEndsUnlessDenied ==
    \A o \in Ops :
        /\ (pc[o] \in {"gate", "attempt", "wait"} /\ physical[o] >= 1)
               => Retryable(outcome[o])
        /\ pc[o] = "done"
               => \/ /\ physical[o] = attempt[o] + 1
                     /\ ~Retryable(outcome[o])
                     /\ result[o] = Returned(outcome[o])
                  \/ /\ physical[o] = maxRetries + 1
                     /\ result[o] = Returned(outcome[o])
                  \/ /\ Breaking
                     /\ result[o] = CircuitOpenError
                     /\ physical[o] = attempt[o]

\* One retryable outcome, then a non-retryable one, with a retry still unused.
FirstNonRetryableEndsUnlessDeniedWitness ==
    \E o \in Ops :
        /\ pc[o] = "done"
        /\ attempt[o] = 1
        /\ physical[o] = 2
        /\ maxRetries = 2
        /\ outcome[o] = Response(200)
        /\ result[o] = Returned(Response(200))

\* C18: a cancellation that fires during the backoff wait ends the wait at
\* once; the operation ends with the cancellation error and makes no further
\* physical attempt.
CancelEndsWaitAtOnce ==
    \A o \in Ops :
        cancel[o].fired
            => /\ pc[o] = "wait" => now = cancel[o].at
               /\ pc[o] # "wait" => (pc[o] = "done" /\ result[o] = CancelledError)
               /\ physical[o] = attempt[o] + 1

\* C19: GetState changes nothing: it creates no record for an unseen key, for
\* which it returns closed, changes no field of an existing record, whose
\* state it returns, and does not turn an open circuit half-open.
GetStateReadsOnly ==
    [][last'.op = "GetState"
          => /\ circuits' = circuits
             /\ last'.ret = (IF last'.key \in DOMAIN circuits
                             THEN circuits[last'.key].state
                             ELSE CircuitBreakerClosed)]_vars

\* The state of an open circuit was queried after its timeout had elapsed.
GetStateReadsOnlyWitness ==
    /\ last.op = "GetState"
    /\ last.pre.state = CircuitBreakerOpen
    /\ now - last.pre.openedAt >= timeout
    /\ last.ret = CircuitBreakerOpen
    /\ circuits[last.key] = last.pre
    /\ \E b \in Keys : b \notin DOMAIN circuits

\* The circuits after n failures recorded for key k.
RECURSIVE AfterFailures(_, _, _)
AfterFailures(cs, k, n) ==
    IF n = 0 THEN cs ELSE RecordFailureCircuits(AfterFailures(cs, k, n - 1), k)

\* Key k answers as a key never seen: the query gives closed, the gate
\* permits, and threshold failures, no fewer, open the circuit.
BehavesAsUnseen(cs, k) ==
    /\ k \notin DOMAIN cs
    /\ GetStateReturns(cs, k) = CircuitBreakerClosed
    /\ CanAttemptReturns(cs, k)
    /\ CanAttemptCircuits(cs, k)[k] = NewCircuitState
    /\ \A n \in 1..threshold :
           AfterFailures(cs, k, n)[k].state =
               (IF n < threshold THEN CircuitBreakerClosed ELSE CircuitBreakerOpen)

\* C20: after Reset(k), whatever k's record was, k behaves as a key never
\* seen and every other key's record is unchanged; ResetAll does the same for
\* every key.
ResetRestoresUnseen ==
    [][/\ last'.op = "Reset"
           => /\ BehavesAsUnseen(circuits', last'.key)
              /\ \A b \in Keys \ {last'.key} :
                     RecordOf(circuits', b) = RecordOf(circuits, b)
       /\ last'.op = "ResetAll"
           => \A k \in Keys : BehavesAsUnseen(circuits', k)]_vars

\* A half-open circuit with counted failures was reset while the other key's
\* circuit stays open.
ResetRestoresUnseenWitness ==
    /\ last.op = "Reset"
    /\ last.pre.state = CircuitBreakerHalfOpen
    /\ last.pre.failureCount >= 1
    /\ last.pre.halfOpenAttempts >= 1
    /\ last.key \notin DOMAIN circuits
    /\ \E b \in Keys : StateOf(circuits, b) = CircuitBreakerOpen

\* C21: no update is lost. Whenever no caller holds cb.mu, the circuits equal
\* those obtained by running the finished calls one at a time in the order they
\* took the mutex; at most one caller is inside a method; and failures recorded
\* by concurrent callers on a closed key each add one to failureCount, which
\* opens the circuit when it reaches threshold.
NoLostUpdate ==
    /\ Cardinality({t \in Callers : callers[t].pc \in {"load", "store", "unlock"}}) <= 1
    /\ mu = 0 => circuits = serial
    /\ \A k \in ConcKeys :
           (mu = 0 /\ StateOf(circuits, k) = CircuitBreakerClosed)
               => /\ circuits[k].failureCount = streak[k]
                  /\ streak[k] < threshold

\* A caller has recorded the failure that opened the circuit, its second in a
\* row, while another caller waits for cb.mu to record a failure of its own.
NoLostUpdateWitness ==
    \E t \in Callers, u \in Callers, k \in ConcKeys :
        /\ u # t
        /\ callers[t] = [pc |-> "unlock", op |-> "RecordFailure", key |-> k,
                         reg |-> callers[t].reg]
        /\ callers[t].reg # Unseen
        /\ callers[t].reg.state = CircuitBreakerClosed
        /\ callers[t].reg.failureCount = 1
        /\ circuits[k].failureCount = 2
        /\ circuits[k].state = CircuitBreakerOpen
        /\ threshold = 2
        /\ callers[u].pc = "lock"

\* C22: a gate check that denies counts no failure and does not move openedAt;
\* one that denies an open circuit before its timeout, or a half-open circuit
\* whose trial budget is used up, leaves the whole record unchanged.
DenialChangesNothing ==
    (last.op = "CanAttempt" /\ ~last.ret)
        => /\ last.pre # Unseen
           /\ LastRecord.failureCount = last.pre.failureCount
           /\ LastRecord.openedAt = last.pre.openedAt
           /\ LastRecord.lastFailureTime = last.pre.lastFailureTime
           /\ ( \/ (last.pre.state = CircuitBreakerOpen /\ now - last.pre.openedAt < timeout)
                \/ (last.pre.state = CircuitBreakerHalfOpen
                       /\ last.pre.halfOpenAttempts >= halfOpenRequests) )
                  => LastRecord = last.pre

\* A gate check was denied on a half-open circuit after its one trial.
DenialChangesNothingWitness ==
    /\ last.op = "CanAttempt"
    /\ ~last.ret
    /\ last.pre.state = CircuitBreakerHalfOpen
    /\ last.pre.halfOpenAttempts = 1
    /\ halfOpenRequests = 1
    /\ last.pre.failureCount >= 1
    /\ LastRecord = last.pre

\* C23: a success recorded on a closed circuit sets failureCount to zero; on a
\* closed circuit failureCount is the number of failures since the key's last
\* success, it stays below threshold, and the failure that opens a closed
\* circuit is at least the threshold-th since the last success.
OpensOnlyAfterThresholdFailures ==
    /\ (last.op = "RecordSuccess" /\ last.pre.state = CircuitBreakerClosed)
           => /\ LastRecord.failureCount = 0
              /\ LastRecord.state = CircuitBreakerClosed
    /\ (/\ last.op = "RecordFailure"
        /\ last.pre.state \in {CircuitBreakerClosed, "unseen"}
        /\ StateOf(circuits, last.key) = CircuitBreakerOpen)
           => streak[last.key] >= threshold
    /\ \A k \in RecordKeys :
           /\ StateOf(circuits, k) = "unseen" => streak[k] = 0
           /\ StateOf(circuits, k) = CircuitBreakerClosed
                  => /\ circuits[k].failureCount = streak[k]
                     /\ threshold >= 1 => streak[k] < threshold

\* The second failure in a row opened a closed circuit of threshold 2.
OpensOnlyAfterThresholdFailuresWitness ==
    /\ last.op = "RecordFailure"
    /\ last.pre.state = CircuitBreakerClosed
    /\ last.pre.failureCount = 1
    /\ threshold = 2
    /\ streak[last.key] = 2
    /\ LastRecord.state = CircuitBreakerOpen

\* C24: the half-open counters are never negative; a key enters half-open only
\* by a gate check, with no success counted and only that check's own permit;
\* and while half-open the counters are those of the current window alone.
HalfOpenCountersStartAtZero ==
    /\ \A k \in DOMAIN circuits :
           /\ circuits[k].halfOpenAttempts >= 0
           /\ circuits[k].halfOpenSuccessCount >= 0
           /\ circuits[k].state = CircuitBreakerHalfOpen
                  => /\ circuits[k].halfOpenAttempts = winPermits[k]
                     /\ circuits[k].halfOpenSuccessCount = winSuccesses[k]
    /\ (/\ last.op # "none"
        /\ last.pre.state # CircuitBreakerHalfOpen
        /\ StateOf(circuits, last.key) = CircuitBreakerHalfOpen)
           => /\ last.op = "CanAttempt"
              /\ last.pre.state = CircuitBreakerOpen
              /\ LastRecord.halfOpenSuccessCount = 0
              /\ LastRecord.halfOpenAttempts = (IF last.ret THEN 1 ELSE 0)

\* A circuit that still carried the counters of an earlier half-open window
\* turned half-open again.
HalfOpenCountersStartAtZeroWitness ==
    /\ last.op = "CanAttempt"
    /\ last.pre.state = CircuitBreakerOpen
    /\ last.pre.halfOpenAttempts >= 1
    /\ last.pre.halfOpenSuccessCount >= 1
    /\ LastRecord.state = CircuitBreakerHalfOpen
    /\ LastRecord.halfOpenSuccessCount = 0

\* C25: for a key without a record RecordSuccess creates none, RecordFailure
\* leaves a record with failureCount 1 that is open exactly when
\* threshold <= 1, and CanAttempt permits and leaves a closed record with all
\* counters zero.
UnseenKeyCalls ==
    last.pre = Unseen
        => /\ last.op = "RecordSuccess" => last.key \notin DOMAIN circuits
           /\ last.op = "RecordFailure"
                  => LastRecord =
                       [state |-> IF threshold <= 1 THEN CircuitBreakerOpen
                                  ELSE CircuitBreakerClosed,
                        failureCount |-> 1,
                        lastFailureTime |-> now,
                        openedAt |-> IF threshold <= 1 THEN now ELSE 0,
                        halfOpenSuccessCount |-> 0,
                        halfOpenAttempts |-> 0]
           /\ last.op = "CanAttempt"
                  => /\ last.ret
                     /\ LastRecord =
                          [state |-> CircuitBreakerClosed, failureCount |-> 0,
                           lastFailureTime |-> 0, openedAt |-> 0,
                           halfOpenSuccessCount |-> 0, halfOpenAttempts |-> 0]

\* A success was recorded, after the clock has advanced, for a key that has no record.
UnseenKeyCallsWitness ==
    /\ last.op = "RecordSuccess"
    /\ last.pre = Unseen
    /\ last.key \notin DOMAIN circuits
    /\ now > 1

\* C27: every record's state is closed, open or half-open, its three counters
\* are not negative, and the records are a map from endpoint keys.
RecordsWellFormed ==
    /\ DOMAIN circuits \subseteq Keys
    /\ circuits = [k \in DOMAIN circuits |-> circuits[k]]
    /\ \A k \in DOMAIN circuits :
           /\ circuits[k].state \in
                  {CircuitBreakerClosed, CircuitBreakerOpen, CircuitBreakerHalfOpen}
           /\ circuits[k].failureCount >= 0
           /\ circuits[k].halfOpenAttempts >= 0
           /\ circuits[k].halfOpenSuccessCount >= 0

\* Both keys have a record, one open and one half-open.
RecordsWellFormedWitness ==
    /\ DOMAIN circuits = Keys
    /\ circuits["/a"].state = CircuitBreakerOpen
    /\ circuits["/b"].state = CircuitBreakerHalfOpen
    /\ circuits["/b"].halfOpenAttempts = 1
    /\ circuits["/a"].failureCount = 2

\* C26: with circuit breaking enabled an attempt is recorded as a circuit
\* failure exactly when it ended in a transport error or a status of the retry
\* set (500..599 or a configured code), and as a circuit success otherwise; a
\* success recorded on a closed circuit leaves it closed with failureCount 0,
\* and no recorded success opens a circuit.
CircuitRecordsOutcome ==
    \A o \in Ops :
        (last.by = o /\ last.op \in {"RecordSuccess", "RecordFailure"})
            => /\ Breaking
               /\ last.op = "RecordFailure"
                      <=> \/ outcome[o].err
                          \/ (outcome[o].status >= 500 /\ outcome[o].status <= 599)
                          \/ outcome[o].status \in retryOnStatusCodes
               /\ (last.op = "RecordSuccess" /\ last.pre.state = CircuitBreakerClosed)
                      => /\ LastRecord.state = CircuitBreakerClosed
                         /\ LastRecord.failureCount = 0
               /\ (last.op = "RecordSuccess" /\ last.pre.state # CircuitBreakerOpen)
                      => LastRecord.state # CircuitBreakerOpen

\* A 429 that is not configured for retry followed a counted failure: it was
\* recorded as a success and cleared the count.
CircuitRecordsOutcomeWitness ==
    \E o \in Ops :
        /\ last.by = o
        /\ last.op = "RecordSuccess"
        /\ outcome[o] = Response(429)
        /\ retryOnStatusCodes = {}
        /\ last.pre.state = CircuitBreakerClosed
        /\ last.pre.failureCount = 1
        /\ LastRecord.failureCount = 0
        /\ result[o] = Returned(Response(429))

\* C30 as stated: the gate check of a retry that finds the circuit open denies;
\* the operation ends with the circuit-open error after fewer than
\* maxRetries + 1 physical attempts.
OpenCircuitEndsRetries ==
    \A o \in Ops :
        (/\ last.op = "CanAttempt"
         /\ last.by = o
         /\ attempt[o] >= 1
         /\ last.pre.state = CircuitBreakerOpen)
            => /\ ~last.ret
               /\ pc[o] = "done"
               /\ result[o] = CircuitOpenError
               /\ physical[o] < maxRetries + 1

\* C30, amended: the same while the open timeout has not elapsed at the
\* retry's gate check; once it has elapsed the check turns the circuit
\* half-open and permits the retry when halfOpenRequests >= 1.
OpenCircuitEndsRetriesBeforeTimeout ==
    \A o \in Ops :
        (/\ last.op = "CanAttempt"
         /\ last.by = o
         /\ attempt[o] >= 1
         /\ last.pre.state = CircuitBreakerOpen)
            => IF now - last.pre.openedAt < timeout
               THEN /\ ~last.ret
                    /\ pc[o] = "done"
                    /\ result[o] = CircuitOpenError
                    /\ physical[o] < maxRetries + 1
               ELSE /\ last.ret <=> halfOpenRequests >= 1
                    /\ LastRecord.state = CircuitBreakerHalfOpen

\* The first attempt's failure opened the circuit with two retries left; the
\* gate check of the first retry denied.
OpenCircuitEndsRetriesBeforeTimeoutWitness ==
    \E o \in Ops :
        /\ last.op = "CanAttempt"
        /\ last.by = o
        /\ attempt[o] = 1
        /\ last.pre.state = CircuitBreakerOpen
        /\ last.pre.failureCount = 1
        /\ ~last.ret
        /\ outcome[o] = TransportError
        /\ physical[o] = 1
        /\ maxRetries = 2
        /\ result[o] = CircuitOpenError

\* The configuration the claim describes for receiver b merged with other o.
MergedAsClaimed(b, o) ==
    [BaseURL |-> IF o.BaseURL # "" THEN o.BaseURL ELSE b.BaseURL,
     Timeout |-> IF o.Timeout # 0 THEN o.Timeout ELSE b.Timeout,
     Headers |-> [k \in DOMAIN b.Headers \cup DOMAIN o.Headers |->
                     IF k \in DOMAIN o.Headers THEN o.Headers[k] ELSE b.Headers[k]],
     StatusValidator |-> IF o.StatusValidator # "nil"
                         THEN o.StatusValidator ELSE b.StatusValidator,
     RetryOptions |-> IF o.RetryOptions # NilOptions
                      THEN o.RetryOptions ELSE b.RetryOptions]

\* The merged and the cloned configuration are, when made, what the claim says.
DerivedAsClaimed ==
    /\ "merged" \in DOMAIN heap.configs
           => heap.made["merged"] =
                  MergedAsClaimed(heap.origin["config1"], heap.origin["config2"])
    /\ "clone" \in DOMAIN heap.configs
           => heap.made["clone"] = heap.origin["config1"]

\* The receiver reads as it did before Merge and Clone, whatever is changed in
\* the configurations derived from it.
ReceiverUnchanged == View(heap, "config1") = heap.origin["config1"]

\* C28: the merged configuration takes every field that other sets from other
\* and the rest from the receiver, the clone equals the receiver, and no later
\* change to a derived configuration's headers or retry status codes changes a
\* configuration it was derived from.
MergeIsolated ==
    /\ DerivedAsClaimed
    /\ ReceiverUnchanged
    /\ View(heap, "config2") = heap.origin["config2"]

\* C29: NewRetryOptions, which NewRetryManager uses for nil options, is
\* maxRetries 3, initialDelay 100ms, maxDelay 30s, exponential backoff, jitter
\* on with fraction 0.3, no additional status codes, circuit breaking off,
\* threshold 5, open timeout 60s and 1 half-open trial; such a manager retries
\* errors and 5xx statuses at attempts 0, 1 and 2 only.
DefaultRetryOptions ==
    LET defaults == [MaxRetries |-> 3,
                     InitialDelay |-> 100 * Millisecond,
                     MaxDelay |-> 30 * Second,
                     Backoff |-> "exponential",
                     Jitter |-> TRUE,
                     JitterFraction |-> 3,
                     RetryOnStatusCodes |-> <<>>,
                     CircuitBreaker |-> FALSE,
                     CircuitBreakerThreshold |-> 5,
                     CircuitBreakerTimeout |-> 60 * Second,
                     CircuitBreakerHalfOpenRequests |-> 1]
    IN  /\ NewRetryOptions = defaults
        /\ 10 * defaults.JitterFraction = 3 * FractionUnit
        /\ (manager.built /\ manager.given = NilOptions)
               => /\ manager.options = defaults
                  /\ decision.op = "ShouldRetry"
                         => decision.ret <=>
                                /\ decision.attempt < 3
                                /\ \/ decision.err
                                   \/ (decision.status >= 500 /\ decision.status <= 599)
        /\ (manager.built /\ manager.given # NilOptions)
               => manager.options = manager.given

\* A manager built from nil options allowed the third retry of a 503.
DefaultRetryOptionsWitness ==
    /\ manager.built
    /\ manager.given = NilOptions
    /\ decision.op = "ShouldRetry"
    /\ decision.attempt = 2
    /\ decision.status = 503
    /\ ~decision.err
    /\ decision.ret

\* The record a call on an unseen key starts from: RecordFailure creates it
\* before it counts the failure.
Started(pre) == IF pre = Unseen THEN NewCircuitState ELSE pre

\* The values circuit.state takes in the named call on the record pre, in the
\* order of the call's assignments.
StatePath(name, pre) ==
    CASE name = "CanAttempt" ->
             IF pre = Unseen
             THEN <<pre.state, NewCircuitState.state>>
             ELSE <<pre.state, OpenToHalfOpen(pre).state, GateRecord(pre).state>>
      [] name = "RecordSuccess" ->
             IF pre = Unseen THEN <<pre.state>> ELSE <<pre.state, SuccessRecord(pre).state>>
      [] name = "RecordFailure" ->
             <<pre.state, Started(pre).state, CountFailure(Started(pre)).state,
               FailureRecord(Started(pre)).state>>
      [] name \in {"Reset", "ResetAll"} -> <<pre.state, Unseen.state>>
      [] OTHER -> <<pre.state>>

\* The state changes the claim lists, each with the call that may make it.
Transition(name, pre, s, t) ==
    \/ s = t
    \/ /\ s = Unseen.state
       /\ t = CircuitBreakerClosed
       /\ name \in {"CanAttempt", "RecordFailure"}
    \/ /\ s = CircuitBreakerClosed
       /\ t = CircuitBreakerOpen
       /\ name = "RecordFailure"
       /\ Started(pre).failureCount + 1 >= threshold
    \/ /\ s = CircuitBreakerOpen
       /\ t = CircuitBreakerHalfOpen
       /\ name = "CanAttempt"
       /\ TimeoutExpired(pre)
    \/ /\ s = CircuitBreakerHalfOpen
       /\ t = CircuitBreakerClosed
       /\ name = "RecordSuccess"
       /\ pre.halfOpenSuccessCount + 1 >= halfOpenRequests
    \/ /\ s = CircuitBreakerHalfOpen
       /\ t = CircuitBreakerOpen
       /\ name = "RecordFailure"
    \/ /\ t = Unseen.state
       /\ name \in {"Reset", "ResetAll"}

\* C31: in every step the state of a key's circuit changes only along unseen
\* to closed (CanAttempt, RecordFailure), closed to open (RecordFailure at the
\* threshold), open to half-open (CanAttempt after the timeout), half-open to
\* closed (RecordSuccess at halfOpenRequests), half-open to open
\* (RecordFailure) and anything to unseen (Reset, ResetAll); without a reset no
\* step takes open to closed or closed to half-open, and RecordSuccess,
\* RecordFailure, IsOpen and GetState leave an open circuit open.
OnlyListedTransitions ==
    [][\A k \in Keys :
          LET pre == RecordOf(circuits, k)
              post == StateOf(circuits', k)
              name == IF last'.op = "ResetAll" \/ (last'.op # "none" /\ last'.key = k)
                      THEN last'.op
                      ELSE "none"
              path == StatePath(name, pre)
          IN  /\ path[Len(path)] = post
              /\ \A i \in 1..(Len(path) - 1) : Transition(name, pre, path[i], path[i + 1])
              /\ name \notin {"Reset", "ResetAll"}
                     => /\ pre.state = CircuitBreakerOpen => post # CircuitBreakerClosed
                        /\ pre.state = CircuitBreakerClosed => post # CircuitBreakerHalfOpen
                        /\ post = Unseen.state => pre = Unseen
              /\ (/\ pre.state = CircuitBreakerOpen
                  /\ name \in {"RecordSuccess", "RecordFailure", "IsOpen", "GetState"})
                     => post = CircuitBreakerOpen]_vars

\* The first failure of an unseen key with threshold 1: the record is created
\* closed and opened by the same call.
OnlyListedTransitionsWitness ==
    /\ last.op = "RecordFailure"
    /\ last.pre = Unseen
    /\ threshold = 1
    /\ LastRecord.state = CircuitBreakerOpen
    /\ LastRecord.failureCount = 1

\* C32: with threshold >= 1 a closed circuit has failureCount < threshold in
\* every reachable state: the failure that raises failureCount to the threshold
\* opens the circuit in the same call, and every call that turns a circuit
\* closed again leaves failureCount at zero.
ClosedBelowThreshold ==
    threshold >= 1 =>
        /\ \A k \in DOMAIN circuits :
               circuits[k].state = CircuitBreakerClosed => circuits[k].failureCount < threshold
        /\ (/\ last.op = "RecordFailure"
            /\ Started(last.pre).state = CircuitBreakerClosed
            /\ Started(last.pre).failureCount + 1 >= threshold)
               => /\ LastRecord.state = CircuitBreakerOpen
                  /\ LastRecord.failureCount = threshold
        /\ (/\ last.op \in {"CanAttempt", "RecordSuccess", "RecordFailure"}
            /\ last.pre.state \in {CircuitBreakerOpen, CircuitBreakerHalfOpen}
            /\ LastRecord.state = CircuitBreakerClosed)
               => LastRecord.failureCount = 0

\* A circuit that opened, recovered through half-open and has since counted a
\* failure again, one short of the threshold.
ClosedBelowThresholdWitness ==
    /\ threshold = 2
    /\ last.op = "RecordFailure"
    /\ last.pre.state = CircuitBreakerClosed
    /\ LastRecord.state = CircuitBreakerClosed
    /\ LastRecord.failureCount = 1
    /\ LastRecord.halfOpenSuccessCount >= 1

\* C33: a failure recorded for a key whose circuit is open leaves the circuit
\* open with the same openedAt, so the circuit becomes eligible for half-open
\* at the same moment as before; only failureCount and lastFailureTime change.
FailureOnOpenKeepsOpenedAt ==
    (last.op = "RecordFailure" /\ last.pre.state = CircuitBreakerOpen)
        => /\ LastRecord = [last.pre EXCEPT !.failureCount = @ + 1,
                                            !.lastFailureTime = now]
           /\ LastRecord.state = CircuitBreakerOpen
           /\ LastRecord.openedAt = last.pre.openedAt
           /\ TimeoutExpired(LastRecord) <=> TimeoutExpired(last.pre)
           /\ CanAttemptReturns(circuits, last.key) <=> GatePermits(last.pre)

\* A failure recorded on an open circuit after its timeout has elapsed: the
\* next gate check still turns the circuit half-open.
FailureOnOpenKeepsOpenedAtWitness ==
    /\ last.op = "RecordFailure"
    /\ last.pre.state = CircuitBreakerOpen
    /\ timeout = 1
    /\ halfOpenRequests >= 1
    /\ last.pre.openedAt < now
    /\ LastRecord.lastFailureTime > last.pre.lastFailureTime
    /\ CanAttemptReturns(circuits, last.key)

\* C34: a success recorded for a key whose circuit is open changes nothing:
\* the circuit stays open and failureCount, openedAt and both half-open
\* counters keep their values.
SuccessOnOpenChangesNothing ==
    (last.op = "RecordSuccess" /\ last.pre.state = CircuitBreakerOpen)
        => /\ LastRecord = last.pre
           /\ LastRecord.state = CircuitBreakerOpen
           /\ LastRecord.failureCount = last.pre.failureCount
           /\ LastRecord.openedAt = last.pre.openedAt
           /\ LastRecord.halfOpenSuccessCount = last.pre.halfOpenSuccessCount
           /\ LastRecord.halfOpenAttempts = last.pre.halfOpenAttempts

\* A success recorded on a circuit that is open for the second time, after its
\* timeout, with the counters of its earlier half-open window still in it.
SuccessOnOpenChangesNothingWitness ==
    /\ last.op = "RecordSuccess"
    /\ last.pre.state = CircuitBreakerOpen
    /\ TimeoutExpired(last.pre)
    /\ last.pre.halfOpenSuccessCount >= 1
    /\ last.pre.halfOpenAttempts >= 1
    /\ last.pre.failureCount >= 1
    /\ LastRecord.state = CircuitBreakerOpen

\* The call that has just returned is IsOpen and it left the key's record alone.
IsOpenReadsOnly ==
    last.op = "IsOpen" => RecordOf(circuits, last.key) = last.pre

\* C37 as stated: IsOpen changes no breaker state and, in every state, returns
\* true exactly when CanAttempt on the same key at the same instant would deny.
IsOpenAgreesWithGate ==
    /\ IsOpenReadsOnly
    /\ \A k \in Keys : IsOpenReturns(circuits, k) <=> ~CanAttemptReturns(circuits, k)

\* The gate would turn the record half-open, or find it so, with no trial left.
TrialsUsedUp(c) ==
    /\ OpenToHalfOpen(c).state = CircuitBreakerHalfOpen
    /\ ~HalfOpenBudgetLeft(OpenToHalfOpen(c))

\* C37, amended: IsOpen changes no breaker state and returns true exactly for
\* an open circuit whose timeout has not elapsed; whenever it returns true the
\* gate would deny, and the gate also denies, while IsOpen returns false,
\* exactly when the circuit is half-open, or open past its timeout, with the
\* trial budget used up.
IsOpenAgreesUnlessTrialsUsedUp ==
    /\ IsOpenReadsOnly
    /\ last.op = "IsOpen" => (last.ret <=> IsOpenReturns(circuits, last.key))
    /\ \A k \in Keys :
           /\ IsOpenReturns(circuits, k)
                  <=> /\ StateOf(circuits, k) = CircuitBreakerOpen
                      /\ now - circuits[k].openedAt < timeout
           /\ IsOpenReturns(circuits, k) => ~CanAttemptReturns(circuits, k)
           /\ (~IsOpenReturns(circuits, k) /\ ~CanAttemptReturns(circuits, k))
                  <=> (k \in DOMAIN circuits /\ TrialsUsedUp(circuits[k]))

\* IsOpen has just answered false for a half-open circuit whose one or more
\* trials are all taken, so that the gate would deny.
IsOpenAgreesUnlessTrialsUsedUpWitness ==
    /\ last.op = "IsOpen"
    /\ ~last.ret
    /\ last.pre.state = CircuitBreakerHalfOpen
    /\ halfOpenRequests >= 1
    /\ last.pre.halfOpenAttempts = halfOpenRequests
    /\ ~CanAttemptReturns(circuits, last.key)

\* C38: with jitter disabled the delay is non-decreasing in the attempt index
\* for every strategy: no delay that CalculateDelay can return for an attempt
\* index m is above the delay it has just returned for an index n >= m, and
\* after the delay has reached maxDelay it is maxDelay for every larger index.
DelayNonDecreasing ==
    (delayCall.op = "CalculateDelay" /\ ~jitter)
        => \A m \in 0..delayCall.attempt :
               \A d \in DelaysFrom(StrategyDelays(m)) :
                   /\ d <= delayCall.ret
                   /\ d = maxDelay => delayCall.ret = maxDelay

\* The value the strategy computes before its conversion to a duration: the
\* int64 product without wrap-around, the float64 product without truncation.
StrategyValue(n) ==
    CASE backoff = BackoffLinear -> initialDelay * (n + 1)
      [] backoff = BackoffFixed -> initialDelay
      [] OTHER -> Float64Of(initialDelay) * 2^n

\* The delay is non-decreasing up to every attempt index whose strategy value
\* fits the duration type.
DelayNonDecreasingWithoutOverflow ==
    (delayCall.op = "CalculateDelay" /\ ~jitter /\ StrategyValue(delayCall.attempt) \in Durations)
        => \A m \in 0..delayCall.attempt :
               \A d \in DelaysFrom(StrategyDelays(m)) :
                   /\ d <= delayCall.ret
                   /\ d = maxDelay => delayCall.ret = maxDelay

\* C39: a strategy value that is none of exponential, linear and fixed makes
\* CalculateDelay compute what the exponential strategy computes, for every
\* attempt index, cap and jitter setting: the same strategy values, the same
\* capped value and the same set of delays returned.
UnknownStrategyIsExponential ==
    backoff \notin {BackoffExponential, BackoffLinear, BackoffFixed}
        => /\ \A n \in 0..MaxAttemptIndex :
                  /\ StrategyDelays(n) = ExponentialBackoff(n)
                  /\ DelaysFrom(StrategyDelays(n)) = DelaysFrom(ExponentialBackoff(n))
           /\ delayCall.op = "CalculateDelay"
                  => /\ delayCall.strategy \in ExponentialBackoff(delayCall.attempt)
                     /\ delayCall.capped = CapDelay(delayCall.strategy)
                     /\ delayCall.ret \in DelaysFrom(ExponentialBackoff(delayCall.attempt))

\* A manager built without a strategy has returned a jittered delay for the
\* third attempt, from a strategy value that neither the linear nor the fixed
\* strategy gives.
UnknownStrategyIsExponentialWitness ==
    /\ backoff = ""
    /\ jitter
    /\ delayCall.op = "CalculateDelay"
    /\ delayCall.attempt = 2
    /\ initialDelay > 0
    /\ delayCall.strategy = 4 * initialDelay
    /\ delayCall.strategy # LinearBackoff(2)
    /\ delayCall.strategy < maxDelay
    /\ delayCall.ret # delayCall.capped

\* A half-open circuit that no call can leave: the gate denies, and no
\* permitted attempt is under way whose outcome could still be recorded.
DeadHalfOpen(k) ==
    /\ StateOf(circuits, k) = CircuitBreakerHalfOpen
    /\ ~CanAttemptReturns(circuits, k)
    /\ \A o \in Ops : ~(pc[o] = "attempt" /\ opKey[o] = k)

\* C36: a circuit never stays half-open forever: while callers keep issuing
\* gate checks and every permitted attempt's outcome is recorded, a half-open
\* circuit eventually becomes closed or open again, and no reachable state has
\* a half-open circuit whose gate denies with no outcome still to arrive.
HalfOpenNeverLasts ==
    /\ [](\A k \in CtlKeys : ~DeadHalfOpen(k))
    /\ \A k \in CtlKeys :
           (StateOf(circuits, k) = CircuitBreakerHalfOpen)
               ~> (StateOf(circuits, k) \in {CircuitBreakerClosed, CircuitBreakerOpen})

\* Operation o records, in this step, the outcome of an attempt that was
\* permitted before the half-open window its key's circuit is in.
RecordsLate(o) ==
    /\ pc[o] = "attempt"
    /\ last'.op \in {"RecordSuccess", "RecordFailure"}
    /\ last'.by = o
    /\ StateOf(circuits, opKey[o]) = CircuitBreakerHalfOpen
    /\ ~trial[o]

\* C35: with logical operations running at the same time on one key, a
\* half-open circuit always has halfOpenSuccessCount <= halfOpenAttempts, and
\* the outcome of an attempt permitted before the current half-open window,
\* recorded late, is not counted toward closing and neither closes nor reopens
\* the circuit.
OnlyWindowTrialsCount ==
    /\ [](\A k \in DOMAIN circuits :
              circuits[k].state = CircuitBreakerHalfOpen
                  => circuits[k].halfOpenSuccessCount <= circuits[k].halfOpenAttempts)
    /\ [][\A o \in Ops :
              RecordsLate(o)
                  => /\ StateOf(circuits', opKey[o]) = CircuitBreakerHalfOpen
                     /\ circuits'[opKey[o]].halfOpenSuccessCount
                            = circuits[opKey[o]].halfOpenSuccessCount]_vars

====
